---- MODULE Spec2Model ----
(***************************************************************************)
(* A model of nextbrain-utils: the name normalizer, the remap-table        *)
(* builders (NextBrain -> Allen, Allen -> simplified Allen, NextBrain ->   *)
(* SuperSynth) and the label translators that apply them.                  *)
(*                                                                         *)
(* The library is stateless: the state of the model is the data the        *)
(* package loads from its lut/ directory (the Allen ontology tree, the     *)
(* NextBrain lookup table, the NextBrain-to-SuperSynth correspondence)     *)
(* together with the last call made (its name, arguments and result).      *)
(* A name is a sequence of one-character strings.                          *)
(***************************************************************************)
EXTENDS Integers, Sequences, FiniteSets, TLC

VARIABLES
    allen_ont,      \* the tree returned by load_ontology()
    nextbrain_lut,  \* the rows returned by load_lut()
    supersynth_map, \* the mapping returned by load_yaml(PATH_MAPPING)
    op,             \* name of the last call ("none" before any call)
    arg,            \* its arguments
    ret             \* its result

vars == <<allen_ont, nextbrain_lut, supersynth_map, op, arg, ret>>

(***************************************************************************)
(* Bounds of the model.                                                    *)
(***************************************************************************)
\* number of tokens concatenated to form an input of normalize_name
MaxTokens == 3

(***************************************************************************)
(* Strings.                                                                *)
(***************************************************************************)
UpperChars ==
    <<"A", "B", "C", "D", "E", "F", "G", "H", "I", "J", "K", "L", "M", "N",
      "O", "P", "Q", "R", "S", "T", "U", "V", "W", "X", "Y", "Z">>
LowerChars ==
    <<"a", "b", "c", "d", "e", "f", "g", "h", "i", "j", "k", "l", "m", "n",
      "o", "p", "q", "r", "s", "t", "u", "v", "w", "x", "y", "z">>

\* str.isspace: the characters str.strip() trims and the regex \s matches
IsSpace(c) == c \in {" ", "\t"}

LowerChar(c) ==
    IF \E i \in DOMAIN UpperChars : UpperChars[i] = c
    THEN LowerChars[CHOOSE i \in DOMAIN UpperChars : UpperChars[i] = c]
    ELSE c

\* str.lower()
lower(s) == [i \in DOMAIN s |-> LowerChar(s[i])]

UpperChar(c) ==
    IF \E i \in DOMAIN LowerChars : LowerChars[i] = c
    THEN UpperChars[CHOOSE i \in DOMAIN LowerChars : LowerChars[i] = c]
    ELSE c

\* str.upper()
upper(s) == [i \in DOMAIN s |-> UpperChar(s[i])]

RECURSIVE lstrip(_)
lstrip(s) ==
    IF s # <<>> /\ IsSpace(Head(s)) THEN lstrip(Tail(s)) ELSE s

RECURSIVE rstrip(_)
rstrip(s) ==
    IF s # <<>> /\ IsSpace(s[Len(s)])
    THEN rstrip(SubSeq(s, 1, Len(s) - 1))
    ELSE s

\* str.strip()
strip(s) == rstrip(lstrip(s))

\* str.startswith(p)
startswith(s, p) == Len(s) >= Len(p) /\ SubSeq(s, 1, Len(p)) = p

\* s[n:]
DropFirst(s, n) == SubSeq(s, n + 1, Len(s))

\* str.replace(c, '')
RECURSIVE remove_char(_, _)
remove_char(s, c) ==
    IF s = <<>> THEN <<>>
    ELSE IF Head(s) = c THEN remove_char(Tail(s), c)
    ELSE <<Head(s)>> \o remove_char(Tail(s), c)

\* str.replace(c, d) for single characters
replace_char(s, c, d) == [i \in DOMAIN s |-> IF s[i] = c THEN d ELSE s[i]]

\* re.sub(r'\s+', ' ', s)
RECURSIVE collapse_spaces(_)
collapse_spaces(s) ==
    IF s = <<>> THEN <<>>
    ELSE IF IsSpace(Head(s)) THEN <<" ">> \o collapse_spaces(lstrip(s))
    ELSE <<Head(s)>> \o collapse_spaces(Tail(s))

PrefixCtx == <<"c", "t", "x", "-">>
PrefixLh == <<"l", "h", "-">>
PrefixRh == <<"r", "h", "-">>

StripCtx(s) == IF startswith(s, PrefixCtx) THEN DropFirst(s, 4) ELSE s

StripHemiNone(s) == s
StripHemi(s) ==
    IF startswith(s, PrefixLh) \/ startswith(s, PrefixRh)
    THEN DropFirst(s, 3)
    ELSE s

ReplaceSeparatorsNone(s) == s
ReplaceSeparators(s) == replace_char(replace_char(s, "-", " "), "_", " ")

normalize_name(name) ==
    LET n1 == strip(lower(name))
        n2 == StripCtx(n1)
        n3 == StripHemi(n2)
        n4 == remove_char(n3, ",")
        n5 == ReplaceSeparators(n4)
    IN  strip(collapse_spaces(n5))

(***************************************************************************)
(* Dense integer arrays.  A numpy array of tbl.len entries is held as its  *)
(* initial contents (tbl.base) and the entries written since (tbl.over),   *)
(* so that an array of 2**29 entries is represented exactly.               *)
(***************************************************************************)
\* np.arange(n)
Arange(n) == [len |-> n, base |-> "arange", over |-> <<>>, post |-> "none"]
\* np.zeros([n])
Zeros(n) == [len |-> n, base |-> "zeros", over |-> <<>>, post |-> "none"]

\* the entry of the array as created: np.arange, np.zeros, or np.arange after
\* arr[arr >= 2000] -= 1000
BaseAt(tbl, i) ==
    CASE tbl.base = "arange" -> i
      [] tbl.base = "arange_right_to_left" ->
            IF i >= 2000 THEN i - 1000 ELSE i
      [] OTHER -> 0

\* the array as written, before any elementwise rewriting
RawAt(tbl, i) == IF i \in DOMAIN tbl.over THEN tbl.over[i] ELSE BaseAt(tbl, i)

\* astype('i2'): the low 16 bits, as a signed integer
CastInt16(v) == ((v + 32768) % 65536) - 32768

\* nextbrain2allen[prefix_x] -= ..., the masks taken before any subtraction
Rewrite16NoOffset(v) ==
    CASE v \div 1000 = 146035 -> v - 146035000
      [] v \div 1000 = 146034 -> v - 146034000
      [] v \div 1000 = 266441 -> v - 266441000
      [] v \div 1000 = 267499 -> v - 267490000
      [] OTHER -> v
Rewrite16(v) ==
    CASE v \div 1000 = 146035 -> v - 146035000
      [] v \div 1000 = 146034 -> v - 146034000
      [] v \div 1000 = 266441 -> v - (266440000 - 2000)
      [] v \div 1000 = 267499 -> v - 267490000
      [] OTHER -> v

\* tbl[i] for 0 <= i < tbl.len
At(tbl, i) ==
    IF tbl.post = "int16" THEN CastInt16(Rewrite16(RawAt(tbl, i)))
    ELSE RawAt(tbl, i)

\* the indices of tbl
Indices(tbl) == 0..(tbl.len - 1)

\* tbl[i] = v
SetAt(tbl, i, v) == [tbl EXCEPT !.over = (i :> v) @@ tbl.over]

\* numpy integer indexing: a negative index counts from the end of the
\* array, an index outside [-len, len) raises IndexError
InBounds(tbl, v) == -tbl.len <= v /\ v < tbl.len
WrapIndex(tbl, v) == IF v < 0 THEN tbl.len + v ELSE v

GatherFirst(tbl, dat) == [i \in DOMAIN dat |-> At(tbl, WrapIndex(tbl, dat[1]))]
\* tbl[np.asarray(dat)]
Gather(tbl, dat) == [i \in DOMAIN dat |-> At(tbl, WrapIndex(tbl, dat[i]))]

(***************************************************************************)
(* Ontology trees.  Node 1 is the root; node k carries id[k], name[k] and  *)
(* acronym[k]; its children are the nodes j with parent[j] = k, in         *)
(* increasing order; haskey[k] tells whether the node has a "children"     *)
(* entry at all.                                                           *)
(***************************************************************************)
Nodes(t) == DOMAIN t.parent

ListedChildren(t, k) ==
    SelectSeq([j \in Nodes(t) |-> j], LAMBDA j : t.parent[j] = k)

\* ont.get("children", [])
GetChildren(t, k) == IF t.haskey[k] THEN ListedChildren(t, k) ELSE <<>>

RECURSIVE IsAncestor(_, _, _)
\* a is a proper ancestor of k
IsAncestor(t, a, k) ==
    /\ t.parent[k] # 0
    /\ (t.parent[k] = a \/ IsAncestor(t, a, t.parent[k]))

Descendants(t, k) == { j \in Nodes(t) : IsAncestor(t, k, j) }

(***************************************************************************)
(* Inputs of normalize_name: concatenations of at most MaxTokens tokens.   *)
(***************************************************************************)
NameTokens ==
    { <<"c", "t", "x", "-">>, <<"C", "T", "X", "-">>,
      <<"l", "h", "-">>, <<"R", "h", "-">>,
      <<"c", "t", "x">>, <<"l", "h">>,
      <<"-">>, <<"_">>, <<",">>, <<" ">>, <<"\t">>,
      <<"a">>, <<"A">> }

RECURSIVE TokenStrings(_)
TokenStrings(n) ==
    IF n = 0 THEN { <<>> }
    ELSE LET shorter == TokenStrings(n - 1)
         IN  shorter \cup { s \o t : s \in shorter, t \in NameTokens }

InputNames == TokenStrings(MaxTokens)

(***************************************************************************)
(* The name normalizer called on its own.                                  *)
(***************************************************************************)
NoData == <<>>

\* the data files read so far
Loaded == <<allen_ont # NoData, nextbrain_lut # NoData,
            supersynth_map # NoData>>

InitNorm ==
    /\ allen_ont = NoData
    /\ nextbrain_lut = NoData
    /\ supersynth_map = NoData
    /\ op = "none"
    /\ arg = <<>>
    /\ ret = <<>>

\* The library keeps no state between calls: a behaviour is one call made
\* from the freshly loaded state.
CallNormalizeName ==
    /\ op = "none"
    /\ \E x \in InputNames :
        /\ op' = "normalize_name"
        /\ arg' = x
        /\ ret' = normalize_name(x)
    /\ UNCHANGED <<allen_ont, nextbrain_lut, supersynth_map>>

NextNorm == CallNormalizeName

SpecNorm == InitNorm /\ [][NextNorm]_vars

\* C10: normalize_name is idempotent: normalizing the result of a call to
\* normalize_name gives that result back, whatever the input was (repeated
\* or nested prefixes, leading separators or commas, mixed case).
C10_Idempotent ==
    op = "normalize_name" => normalize_name(ret) = ret

\* A call on an input with a nested prefix ('ctx-ctx-a', 'lh-Rh-a' or
\* 'ctx-lh-a') has returned.
C10_Witness ==
    /\ op = "normalize_name"
    /\ \E p \in {PrefixCtx, PrefixLh} :
        /\ startswith(lower(arg), p)
        /\ \E q \in {PrefixCtx, PrefixLh, PrefixRh} :
            startswith(DropFirst(lower(arg), Len(p)), q)
    /\ ret # <<>>

\* the tokens the claims prepend to a name
CtxLh == <<"c", "t", "x", "-", "l", "h", "-">>
CtxRh == <<"c", "t", "x", "-", "r", "h", "-">>
LeftDash == <<"L", "e", "f", "t", "-">>
RightDash == <<"R", "i", "g", "h", "t", "-">>

BeginsWithPrefixToken(s) ==
    startswith(s, PrefixCtx) \/ startswith(s, PrefixLh)
        \/ startswith(s, PrefixRh)

\* C11 as stated, prefix tokens being recognised in any letter case: for
\* every X that does not itself begin with a prefix token, X, 'ctx-lh-' + X
\* and 'ctx-rh-' + X normalize identically.
C11_CtxHemiAnyName ==
    (op = "normalize_name" /\ ~BeginsWithPrefixToken(lower(arg))) =>
        /\ normalize_name(CtxLh \o arg) = ret
        /\ normalize_name(CtxRh \o arg) = ret

\* C11: for every X that, once lower-cased and stripped of its outer
\* whitespace, does not begin with 'ctx-', 'lh-' or 'rh-', X, 'ctx-lh-' + X
\* and 'ctx-rh-' + X normalize identically.
C11_CtxHemi ==
    (op = "normalize_name" /\ ~BeginsWithPrefixToken(strip(lower(arg)))) =>
        /\ normalize_name(CtxLh \o arg) = ret
        /\ normalize_name(CtxRh \o arg) = ret

\* A name with a separator inside and no prefix has been normalized to a
\* non-empty name, and so has the name behind 'ctx-rh-'.
C11_Witness ==
    /\ op = "normalize_name"
    /\ ~BeginsWithPrefixToken(strip(lower(arg)))
    /\ \E i \in DOMAIN arg : arg[i] \in {"-", "_"}
    /\ ret # <<>>
    /\ normalize_name(CtxRh \o arg) = ret

\* C12: for every name X, 'Left-' + X, 'Right-' + X, 'lh-' + X, 'rh-' + X
\* and X normalize identically.
C12_HemisphereTokens ==
    op = "normalize_name" =>
        /\ normalize_name(LeftDash \o arg) = ret
        /\ normalize_name(RightDash \o arg) = ret
        /\ normalize_name(PrefixLh \o arg) = ret
        /\ normalize_name(PrefixRh \o arg) = ret

\* 'a' normalizes to 'a' while 'Left-a' normalizes to 'left a'.
C12_Witness ==
    /\ op = "normalize_name"
    /\ arg = <<"a">>
    /\ ret = <<"a">>
    /\ normalize_name(LeftDash \o arg) = <<"l", "e", "f", "t", " ", "a">>
    /\ normalize_name(PrefixLh \o arg) = ret

(***************************************************************************)
(* simplify.py: get_allen2simple_map and simplify.                         *)
(*                                                                         *)
(* simplify.py imports load_allen_ontology from to_allen, which imports    *)
(* the loader under the name load_ontology; the model reads the tree that  *)
(* loader returns (allen_ont).                                             *)
(*                                                                         *)
(* A label of the caller's list is an integer or a string.                 *)
(***************************************************************************)
IntLabel(n) == [tag |-> "int", n |-> n, s |-> <<>>]
StrLabel(s) == [tag |-> "str", n |-> 0, s |-> s]

DigitChars == <<"0", "1", "2", "3", "4", "5", "6", "7", "8", "9">>
IsDigit(c) == \E i \in DOMAIN DigitChars : DigitChars[i] = c
DigitVal(c) == (CHOOSE i \in DOMAIN DigitChars : DigitChars[i] = c) - 1

RECURSIVE DigitsVal(_)
DigitsVal(s) ==
    IF s = <<>> THEN 0
    ELSE 10 * DigitsVal(SubSeq(s, 1, Len(s) - 1)) + DigitVal(s[Len(s)])

Unsigned(s) == IF s # <<>> /\ Head(s) \in {"+", "-"} THEN Tail(s) ELSE s

\* int(s) succeeds: optional surrounding whitespace, optional sign, digits
IsIntLiteral(s) ==
    LET d == Unsigned(strip(s))
    IN  d # <<>> /\ \A i \in DOMAIN d : IsDigit(d[i])

ParseInt(s) ==
    LET b == strip(s)
    IN  IF Head(b) = "-" THEN -DigitsVal(Tail(b)) ELSE DigitsVal(Unsigned(b))

\* try: label = int(label) / except ValueError: ...
ConvertLabel(l) ==
    IF l.tag = "str" /\ IsIntLiteral(l.s) THEN IntLabel(ParseInt(l.s)) ELSE l

ConvertLabels(labels) == { ConvertLabel(l) : l \in labels }

\* (acronym in labels) or (name in labels) or (name_norm in labels)
\* or (id in labels)
NodeMatches(t, k, labels) ==
    \/ StrLabel(t.acronym[k]) \in labels
    \/ StrLabel(t.name[k]) \in labels
    \/ StrLabel(normalize_name(t.name[k])) \in labels
    \/ IntLabel(t.id[k]) \in labels

\* allen2simple as allocated
\* 2**29, the length of allen2simple
AllenTableLen == 536870912

InitSimpleTableFlipped(hide_missing) ==
    IF hide_missing THEN Arange(AllenTableLen) ELSE Zeros(AllenTableLen)
InitSimpleTable(hide_missing) ==
    IF hide_missing THEN Zeros(AllenTableLen) ELSE Arange(AllenTableLen)

RECURSIVE recurse_map(_, _, _, _)
RECURSIVE recurse_map_children(_, _, _, _)

\* for child in ont.get("children", []): _recurse_map(child, target)
recurse_map_children(t, kids, target, table) ==
    IF kids = <<>> THEN table
    ELSE recurse_map_children(t, Tail(kids), target,
                              recurse_map(t, Head(kids), target, table))

recurse_map_shallow(t, k, target, table) == SetAt(table, t.id[k], target)
\* _recurse_map(ont, target)
recurse_map(t, k, target, table) ==
    recurse_map_children(t, GetChildren(t, k), target,
                         SetAt(table, t.id[k], target))

\* The walk threads the table, the names printed so far and (for the
\* properties) the nodes on which the predicate was tested, in order.
RECURSIVE recurse(_, _, _, _)
RECURSIVE recurse_children(_, _, _, _)

recurse_first_child(t, kids, labels, st) ==
    IF kids = <<>> THEN st ELSE recurse(t, Head(kids), labels, st)
\* for child in ont.get("children", []): _recurse(child)
recurse_children(t, kids, labels, st) ==
    IF kids = <<>> THEN st
    ELSE recurse_children(t, Tail(kids), labels,
                          recurse(t, Head(kids), labels, st))

\* _recurse(ont)
recurse(t, k, labels, st) ==
    LET st1 == [st EXCEPT !.tested = Append(@, k)]
    IN  IF NodeMatches(t, k, labels)
        THEN [st1 EXCEPT !.printed = Append(@, t.name[k]),
                         !.table = recurse_map(t, k, t.id[k], @)]
        ELSE recurse_children(t, GetChildren(t, k), labels, st1)

get_allen2simple_map(t, labels, hide_missing) ==
    recurse(t, 1, ConvertLabels(labels),
            [table |-> InitSimpleTable(hide_missing),
             printed |-> <<>>, tested |-> <<>>])

(***************************************************************************)
(* Volumes.  An input is a file path, an image or a bare array; dat is its *)
(* voxel data, flattened.  The result of a translator call: status "ok"    *)
(* and the returned data, or the exception raised.                         *)
(***************************************************************************)
IsSpatialImage(x) == x.kind \in {"path", "image"}

\* affine=None: the image is built without an affine
NoAffine == <<>>

\* the affine of an image on return: the image built from the data, None
\* and the header has no affine; nb.save writes the header, which holds
\* the affine of the input, and nb.load reads the affine from it
ReturnedAffine(nextbrain, save) ==
    IF save = "no" THEN NoAffine ELSE nextbrain.affine

\* header = nextbrain.header; header.set_data_dtype(dat.dtype): the header
\* is the input image's own header object, not a copy; a file name is
\* loaded inside the call and the caller holds no image
AfterCall(nextbrain, dtype) ==
    IF nextbrain.kind = "image" THEN [nextbrain EXCEPT !.dtype = dtype]
    ELSE nextbrain

Failure(e) == [status |-> e, dat |-> <<>>, table |-> Zeros(0), saved |-> "none"]

\* save: "no" (False), "default" (True) or "given" (a file name)
SimplifySavedAs(save) ==
    CASE save = "no" -> "none"
      [] save = "default" -> "./seg.simplified.nii.gz"
      [] OTHER -> "given"

\* simplify, from the remap table on
SimplifyWith(table, allen, save) ==
    IF \E i \in DOMAIN allen.dat : ~InBounds(table, allen.dat[i])
    THEN Failure("IndexError")
    ELSE IF ~IsSpatialImage(allen)
    THEN Failure("TypeError")  \* nb.Nifti1Image(allen_dat): no affine
    ELSE [status |-> "ok", dat |-> Gather(table, allen.dat),
          table |-> table, saved |-> SimplifySavedAs(save),
          shape |-> allen.shape, affine |-> ReturnedAffine(allen, save),
          dtype |-> "i4", input |-> AfterCall(allen, "i4")]

\* simplify(allen, labels, hide_missing, save)
simplify(t, allen, labels, hide_missing, save) ==
    SimplifyWith(get_allen2simple_map(t, labels, hide_missing).table,
                 allen, save)

(***************************************************************************)
(* Inputs of the simplify commands: ontology trees of at most MaxNodes     *)
(* nodes with unique ids, label lists of at most MaxLabels labels naming   *)
(* nodes by acronym, name, normalized name or id, volumes of at most       *)
(* MaxVox voxels.                                                          *)
(***************************************************************************)
MaxNodes == 3
MaxLabels == 2
MaxVox == 2

SimpleIds == <<12112, 10153, 146034888, 12148, 9>>
SimpleNames ==
    << <<"B", "r", "a", "i", "n">>,
       <<"G", "y", "r", "i", ",", " ", "A">>,
       <<"l", "o", "b", "e", "-", "b">>,
       <<"c", "t", "x", "-", "c", " ", "d">>,
       <<"e">> >>
SimpleAcronyms ==
    << <<"B", "r">>, <<"G", "A">>, <<"L", "B">>, <<"C", "D">>, <<"E">> >>

ParentMaps(n) ==
    { p \in [1..n -> 0..(n - 1)] :
        /\ p[1] = 0
        /\ \A j \in 2..n : 1 <= p[j] /\ p[j] < j }

IsLeaf(p, k) == \A j \in DOMAIN p : p[j] # k

\* every leaf has a "children" entry (an empty list), or none has
SimpleTrees ==
    { [parent |-> p,
       id |-> [k \in DOMAIN p |-> SimpleIds[k]],
       name |-> [k \in DOMAIN p |-> SimpleNames[k]],
       acronym |-> [k \in DOMAIN p |-> SimpleAcronyms[k]],
       haskey |-> [k \in DOMAIN p |-> ~IsLeaf(p, k) \/ keyed]] :
      p \in UNION { ParentMaps(n) : n \in 1..MaxNodes }, keyed \in BOOLEAN }

RECURSIVE ToDigits(_)
\* str(n) for n >= 0
ToDigits(n) ==
    IF n < 10 THEN <<DigitChars[n + 1]>>
    ELSE Append(ToDigits(n \div 10), DigitChars[(n % 10) + 1])

NoSuchLabel == StrLabel(<<"z", "z">>)

NodeLabels(t, k) ==
    { StrLabel(t.acronym[k]), StrLabel(t.name[k]),
      StrLabel(normalize_name(t.name[k])),
      IntLabel(t.id[k]), StrLabel(ToDigits(t.id[k])) }

LabelPool(t) == UNION { NodeLabels(t, k) : k \in Nodes(t) } \cup {NoSuchLabel}
IdLabelPool(t) == { IntLabel(t.id[k]) : k \in Nodes(t) } \cup {NoSuchLabel}

RECURSIVE SubsetsUpTo(_, _)
SubsetsUpTo(S, n) ==
    IF n = 0 THEN { {} }
    ELSE LET smaller == SubsetsUpTo(S, n - 1)
         IN  smaller \cup { T \cup {x} : T \in smaller, x \in S }

RECURSIVE SeqsUpTo(_, _)
\* the non-empty sequences over S of length at most n
SeqsUpTo(S, n) ==
    IF n = 1 THEN { <<x>> : x \in S }
    ELSE LET shorter == SeqsUpTo(S, n - 1)
         IN  shorter \cup { Append(q, x) : q \in shorter, x \in S }

\* background, the id of the root and the id of the last node
VoxelValues(t) == {0, t.id[1], t.id[Len(t.id)]}

InitSimplify ==
    /\ allen_ont \in SimpleTrees
    /\ nextbrain_lut = NoData
    /\ supersynth_map = NoData
    /\ op = "none"
    /\ arg = <<>>
    /\ ret = <<>>

CallGetAllen2SimpleMap ==
    /\ op = "none"
    /\ Loaded = <<TRUE, FALSE, FALSE>>
    /\ \E labels \in SubsetsUpTo(LabelPool(allen_ont), MaxLabels),
          hide_missing \in BOOLEAN :
        /\ op' = "get_allen2simple_map"
        /\ arg' = [labels |-> labels, hide_missing |-> hide_missing]
        /\ ret' = get_allen2simple_map(allen_ont, labels, hide_missing)
    /\ UNCHANGED <<allen_ont, nextbrain_lut, supersynth_map>>

\* the header's data type of a label volume: the narrowest type that holds
\* its values
NarrowestDtype(dat) ==
    IF \E i \in DOMAIN dat : dat[i] < 0
    THEN IF \A i \in DOMAIN dat : -32768 <= dat[i] /\ dat[i] < 32768
         THEN "i2" ELSE "i4"
    ELSE IF \A i \in DOMAIN dat : dat[i] < 256 THEN "u1"
    ELSE IF \A i \in DOMAIN dat : dat[i] < 65536 THEN "u2"
    ELSE "i4"

\* the affine of voxel size f and origin (t, 0, 0), by rows
ImageAffine(f, t) ==
    << <<f, 0, 0, t>>, <<0, f, 0, 0>>, <<0, 0, f, 0>>, <<0, 0, 0, 1>> >>

\* an input volume: a file (of voxel size 1), an image in memory (of voxel
\* size 2, origin 1) or a bare array, which has no affine
Volume(kind, dat, shape) ==
    [kind |-> kind, dat |-> dat, shape |-> shape,
     affine |-> CASE kind = "path" -> ImageAffine(1, 0)
                  [] kind = "image" -> ImageAffine(2, 1)
                  [] OTHER -> NoAffine,
     dtype |-> NarrowestDtype(dat)]

\* the label maps of at most MaxVox voxels over the values, and the maps of
\* one or two voxels that hold one value outside the table: -1, which
\* counts from the end, the length of the table, and its negative minus one
VolumeData(values, len) ==
    SeqsUpTo(values, MaxVox)
        \cup { <<v>> : v \in {-1, len, -len - 1} }
        \cup { <<0, v>> : v \in {-1, len} }

CallSimplify ==
    /\ op = "none"
    /\ Loaded = <<TRUE, FALSE, FALSE>>
    /\ \E labels \in SubsetsUpTo(IdLabelPool(allen_ont), 1),
          hide_missing \in BOOLEAN :
        \E table \in {get_allen2simple_map(allen_ont, labels,
                                           hide_missing).table} :
            \E kind \in {"image", "array"},
               dat \in VolumeData(VoxelValues(allen_ont), table.len),
               save \in {"no", "default", "given"} :
                /\ op' = "simplify"
                /\ arg' = [allen |-> Volume(kind, dat, <<Len(dat), 1, 1>>),
                           labels |-> labels,
                           hide_missing |-> hide_missing, save |-> save]
                /\ ret' = SimplifyWith(table, arg'.allen, save)
    /\ UNCHANGED <<allen_ont, nextbrain_lut, supersynth_map>>

NextSimplify == CallGetAllen2SimpleMap \/ CallSimplify

SpecSimplify == InitSimplify /\ [][NextSimplify]_vars

Range(q) == { q[i] : i \in DOMAIN q }

\* the labels of the call as get_allen2simple_map compares them
Requested == ConvertLabels(arg.labels)

\* C2 as stated: whenever a node N matches the requested label list, the
\* built table maps N's id and the id of every descendant of N to N's id.
C2_BulkFillEveryMatch ==
    op = "get_allen2simple_map" =>
        \A k \in Nodes(allen_ont) :
            NodeMatches(allen_ont, k, Requested) =>
                \A j \in {k} \cup Descendants(allen_ont, k) :
                    At(ret.table, allen_ont.id[j]) = allen_ont.id[k]

\* C2: whenever a node N matches the requested label list and no proper
\* ancestor of N matches it, the built table maps N's id and the id of every
\* descendant of N, at any depth, to N's id.
C2_BulkFill ==
    op = "get_allen2simple_map" =>
        \A k \in Nodes(allen_ont) :
            /\ NodeMatches(allen_ont, k, Requested)
            /\ \A a \in Nodes(allen_ont) :
                IsAncestor(allen_ont, a, k) =>
                    ~NodeMatches(allen_ont, a, Requested)
            => \A j \in {k} \cup Descendants(allen_ont, k) :
                    At(ret.table, allen_ont.id[j]) = allen_ont.id[k]

\* A matched node has a grandchild, and the table has been built.
C2_Witness ==
    /\ op = "get_allen2simple_map"
    /\ \E k, j \in Nodes(allen_ont) :
        /\ NodeMatches(allen_ont, k, Requested)
        /\ IsAncestor(allen_ont, k, j)
        /\ allen_ont.parent[j] # k
        /\ At(ret.table, allen_ont.id[j]) = allen_ont.id[k]

\* the nodes none of whose proper ancestors matches
Uncovered ==
    { k \in Nodes(allen_ont) :
        \A a \in Nodes(allen_ont) :
            IsAncestor(allen_ont, a, k) =>
                ~NodeMatches(allen_ont, a, Requested) }

\* C3: the walk tests the predicate exactly on the nodes none of whose
\* proper ancestors matches, each once: never below a matched node, and on
\* every child of a node that does not match, a node without a children list
\* having no children; every such node that matches is matched (its name is
\* logged and its id maps to itself).
C3_MatchAndStop ==
    op = "get_allen2simple_map" =>
        /\ Range(ret.tested) = Uncovered
        /\ Len(ret.tested) = Cardinality(Uncovered)
        /\ \A k \in Uncovered :
            NodeMatches(allen_ont, k, Requested) =>
                /\ allen_ont.name[k] \in Range(ret.printed)
                /\ At(ret.table, allen_ont.id[k]) = allen_ont.id[k]
        /\ Len(ret.printed) =
            Cardinality({ k \in Uncovered :
                            NodeMatches(allen_ont, k, Requested) })

\* A node below the root matches with no ancestor requested, a requested
\* node below it is not tested, and the leaf has no children list.
C3_Witness ==
    /\ op = "get_allen2simple_map"
    /\ \E k, j \in Nodes(allen_ont) :
        /\ allen_ont.parent[k] # 0
        /\ k \in Range(ret.tested)
        /\ NodeMatches(allen_ont, k, Requested)
        /\ IsAncestor(allen_ont, k, j)
        /\ NodeMatches(allen_ont, j, Requested)
        /\ j \notin Range(ret.tested)
        /\ ~allen_ont.haskey[j]

(***************************************************************************)
(* to_allen.py: get_nextbrain2allen_map and to_allen.                      *)
(*                                                                         *)
(* nextbrain_lut is the sequence of rows [ID, NAME] of the NextBrain       *)
(* lookup table.                                                           *)
(***************************************************************************)
\* CortexOntology(getattr(CortexOntology, x, x))
EnsureCortexOnto(x) ==
    CASE x \in {"gyr", "gyral"} -> "gyral"
      [] x \in {"dev", "developmental"} -> "developmental"
      [] x \in {"dk", "desikankilliany", "desikan-killiany"} ->
            "desikan-killiany"
      [] OTHER -> "ValueError"

Cuneus == <<"c", "u", "n", "e", "u", "s">>
Insula == <<"i", "n", "s", "u", "l", "a">>
InsularLobe == <<"i", "n", "s", "u", "l", "a", "r", " ", "l", "o", "b", "e">>
OccipitalNeocortex ==
    <<"o", "c", "c", "i", "p", "i", "t", "a", "l", " ",
      "n", "e", "o", "c", "o", "r", "t", "e", "x">>
InsularNeocortex ==
    <<"i", "n", "s", "u", "l", "a", "r", " ",
      "n", "e", "o", "c", "o", "r", "t", "e", "x">>

TransverseTemporal ==
    <<"t", "r", "a", "n", "s", "v", "e", "r", "s", "e", "t", "e", "m", "p",
      "o", "r", "a", "l">>
TransverseTemporalGyrus ==
    <<"t", "r", "a", "n", "s", "v", "e", "r", "s", "e", " ", "t", "e", "m",
      "p", "o", "r", "a", "l", " ", "g", "y", "r", "u", "s", " ", "(", "H",
      "e", "s", "c", "h", "l", "'", "s", " ", "g", "y", "r", "u", "s", ")">>
TemporalNeocortex ==
    <<"t", "e", "m", "p", "o", "r", "a", "l", " ", "n", "e", "o", "c", "o",
      "r", "t", "e", "x">>

\* convert["cuneus"], convert["insula"], convert["transversetemporal"] of
\* the hand-written tables (the entries of the cortical labels the model's
\* lookup tables hold)
fscortex_to_allen_gyral ==
    (Cuneus :> Cuneus) @@ (Insula :> InsularLobe)
        @@ (TransverseTemporal :> TransverseTemporalGyrus)
fscortex_to_allen_dev ==
    (Cuneus :> OccipitalNeocortex) @@ (Insula :> InsularNeocortex)
        @@ (TransverseTemporal :> TemporalNeocortex)

\* cortex_map; None (here the empty mapping) for desikan-killiany
CortexMap(cortex_ontology) ==
    CASE cortex_ontology = "gyral" -> fscortex_to_allen_gyral
      [] cortex_ontology = "developmental" -> fscortex_to_allen_dev
      [] OTHER -> <<>>

PrefixCtxLh == <<"c", "t", "x", "-", "l", "h", "-">>

\* the keys of nextbrain_norm
NormKeys(lut) ==
    { lut[r].NAME : r \in { q \in DOMAIN lut :
                              ~startswith(lut[q].NAME, PrefixCtxLh) } }

IsCortical(name) == startswith(name, PrefixCtx)

\* cortex_map[key[7:]] raises KeyError
MissingCortexKey(lut, cortex_map) ==
    /\ cortex_map # <<>>
    /\ \E name \in NormKeys(lut) :
        IsCortical(name) /\ DropFirst(name, 7) \notin DOMAIN cortex_map

\* nextbrain_norm[name], after the hand-fix of the cortical names
NextbrainNorm(name, cortex_map) ==
    IF cortex_map # <<>> /\ IsCortical(name)
    THEN cortex_map[DropFirst(name, 7)]
    ELSE normalize_name(name)

RECURSIVE nextbrain_norm(_, _, _)
\* nextbrain_norm, from row r of the table on: the names that do not start
\* with "ctx-lh-", each with its normalized or hand-fixed name
nextbrain_norm(lut, r, cortex_map) ==
    IF r > Len(lut) THEN <<>>
    ELSE IF startswith(lut[r].NAME, PrefixCtxLh)
    THEN nextbrain_norm(lut, r + 1, cortex_map)
    ELSE (lut[r].NAME :> NextbrainNorm(lut[r].NAME, cortex_map))
         @@ nextbrain_norm(lut, r + 1, cortex_map)

RECURSIVE AssignRows(_, _, _, _, _, _)
\* for nxb_orig, nbx_norm in nextbrain_norm.items(): if allen_norm ==
\* nbx_norm: every row named nxb_orig gets ont["id"].  Rows are taken in
\* table order: all writes of one node carry the same value.
AssignRows(lut, r, norm, allen_norm, id, table) ==
    IF r > Len(lut) THEN table
    ELSE AssignRows(lut, r + 1, norm, allen_norm, id,
            IF /\ lut[r].NAME \in DOMAIN norm
               /\ norm[lut[r].NAME] = allen_norm
            THEN SetAt(table, lut[r].ID, id)
            ELSE table)

RECURSIVE allen_recurse(_, _, _, _, _)
RECURSIVE allen_recurse_children(_, _, _, _, _)

allen_recurse_children(t, kids, lut, norm, st) ==
    IF kids = <<>> THEN st
    ELSE allen_recurse_children(t, Tail(kids), lut, norm,
            allen_recurse(t, Head(kids), lut, norm, st))

\* _recurse as the first-match traversal of simplify.py: the children of a
\* node that matched a label are not visited
allen_recurse_first(t, k, lut, norm, st) ==
    IF \E name \in DOMAIN norm : norm[name] = normalize_name(t.name[k])
    THEN [table |-> AssignRows(lut, 1, norm, normalize_name(t.name[k]),
                               t.id[k], st.table),
          visited |-> Append(st.visited, k)]
    ELSE allen_recurse_children(t, GetChildren(t, k), lut, norm,
            [table |-> st.table, visited |-> Append(st.visited, k)])

\* get_nextbrain2allen_map._recurse(ont)
allen_recurse(t, k, lut, norm, st) ==
    allen_recurse_children(t, GetChildren(t, k), lut, norm,
        [table |-> AssignRows(lut, 1, norm, normalize_name(t.name[k]),
                              t.id[k], st.table),
         visited |-> Append(st.visited, k)])

RECURSIVE SeqMax(_)
SeqMax(q) ==
    IF Len(q) = 1 THEN q[1]
    ELSE LET m == SeqMax(Tail(q)) IN IF q[1] > m THEN q[1] ELSE m

\* nextbrain_lut["ID"].max()
MaxNextbrainLabel(lut) == SeqMax([r \in DOMAIN lut |-> lut[r].ID])

\* np.arange(max_nextbrain_label+1, dtype='i4')
InitAllenTable(lut) == Arange(MaxNextbrainLabel(lut) + 1)

\* get_nextbrain2allen_map(cortex_ontology)
get_nextbrain2allen_map(t, lut, cortex_ontology) ==
    LET onto == EnsureCortexOnto(cortex_ontology)
        cortex_map == CortexMap(onto)
    IN  IF onto = "ValueError"
        THEN [status |-> "ValueError", table |-> Zeros(0), visited |-> <<>>]
        ELSE IF MissingCortexKey(lut, cortex_map)
        THEN [status |-> "KeyError", table |-> Zeros(0), visited |-> <<>>]
        ELSE [status |-> "ok"] @@
             allen_recurse(t, 1, lut, nextbrain_norm(lut, 1, cortex_map),
                           [table |-> InitAllenTable(lut), visited |-> <<>>])

\* if compat16bits: ... (the table after the rewriting and the cast)
Compact16(table, compat16bits) ==
    IF compat16bits THEN [table EXCEPT !.post = "int16"] ELSE table

\* the file written: none, the name given, or the name derived from the
\* input's file name (or from "seg" for an image not read from a file)
ToAllenSavedAs(nextbrain, onto, save) ==
    CASE save = "no" -> [to |-> "none", stem |-> "", suffix |-> ""]
      [] save = "given" -> [to |-> "given", stem |-> "", suffix |-> ""]
      [] OTHER -> [to |-> "default",
                   stem |-> IF nextbrain.kind = "path" THEN "input" ELSE "seg",
                   suffix |-> onto]

AllenFailure(e) ==
    [status |-> e, dat |-> <<>>, table |-> Zeros(0),
     saved |-> [to |-> "none", stem |-> "", suffix |-> ""]]

\* to_allen, from the remap table on: built is the result of
\* get_nextbrain2allen_map for the ontology
ToAllenWith(built, nextbrain, ontology, compat16bits, save) ==
    IF built.status # "ok" THEN AllenFailure(built.status)
    ELSE CHOOSE out \in
        { IF \E i \in DOMAIN nextbrain.dat :
                  ~InBounds(table, nextbrain.dat[i])
          THEN AllenFailure("IndexError")
          ELSE IF ~IsSpatialImage(nextbrain)
          THEN AllenFailure("TypeError") \* nb.Nifti1Image(allen_dat)
          ELSE [status |-> "ok", dat |-> Gather(table, nextbrain.dat),
                table |-> table,
                saved |-> ToAllenSavedAs(nextbrain,
                                         EnsureCortexOnto(ontology), save),
                shape |-> nextbrain.shape,
                affine |-> ReturnedAffine(nextbrain, save),
                dtype |-> IF compat16bits THEN "i2" ELSE "i4",
                input |-> AfterCall(nextbrain,
                                    IF compat16bits THEN "i2" ELSE "i4")] :
          table \in {Compact16(built.table, compat16bits)} } : TRUE

\* to_allen(nextbrain, ontology, compat16bits, save)
to_allen(t, lut, nextbrain, ontology, compat16bits, save) ==
    ToAllenWith(get_nextbrain2allen_map(t, lut, ontology), nextbrain,
                ontology, compat16bits, save)

(***************************************************************************)
(* cli.py: the `allen` command.  args.input is a list of files, args.output*)
(* a list of outputs: "default" stands for True, "given" for a file name.  *)
(***************************************************************************)
\* the list of outputs after lines 81-86, or the ValueError raised
CliOutputsZipped(n_input, output) ==
    IF Len(output) = 0
    THEN [status |-> "ok", list |-> [i \in 1..n_input |-> "default"]]
    ELSE IF Len(output) = 1
    THEN [status |-> "ok", list |-> [i \in 1..n_input |-> output[1]]]
    ELSE [status |-> "ok", list |-> output]
CliOutputs(n_input, output) ==
    IF Len(output) = 0
    THEN [status |-> "ok", list |-> [i \in 1..n_input |-> "default"]]
    ELSE IF Len(output) = 1
    THEN [status |-> "ok", list |-> [i \in 1..n_input |-> output[1]]]
    ELSE IF Len(output) # n_input
    THEN [status |-> "ValueError", list |-> <<>>]
    ELSE [status |-> "ok", list |-> output]

\* bool(out): True and a non-empty file name are both true
Truthy(out) == out \in {"default", "given"}

\* to_allen(inp, args.cortex_ontology, out): the third positional
\* parameter of to_allen is compat16bits, and save keeps its default
CliToAllenArgs(inp, cortex_ontology, out) ==
    [nextbrain |-> Volume("path", inp, <<Len(inp), 1, 1>>),
     ontology |-> cortex_ontology, compat16bits |-> Truthy(out),
     save |-> "no"]

RECURSIVE cli_to_allen_loop(_, _, _, _, _)
\* for inp, out in zip(args.input, outputs): to_allen(inp, ..., out); the
\* loop stops at the first call that raises
cli_to_allen_loop(t, lut, calls, i, results) ==
    IF i > Len(calls) THEN results
    ELSE LET c == calls[i]
         IN  CHOOSE out \in
                 { IF r.status # "ok" THEN Append(results, r)
                   ELSE cli_to_allen_loop(t, lut, calls, i + 1,
                                          Append(results, r)) :
                   r \in {to_allen(t, lut, c.nextbrain, c.ontology,
                                   c.compat16bits, c.save)} } : TRUE

\* _to_allen(args)
cli_to_allen(t, lut, input, output, cortex_ontology) ==
    LET outs == CliOutputs(Len(input), output)
    IN  IF outs.status # "ok"
        THEN [status |-> outs.status, calls |-> <<>>, results |-> <<>>]
        ELSE LET calls == [i \in DOMAIN input |->
                              CliToAllenArgs(input[i], cortex_ontology,
                                             outs.list[i])]
                 \* (the singleton set binds the results of the loop once)
             IN  CHOOSE out \in
                     { [status |-> results[Len(results)].status,
                        calls |-> SubSeq(calls, 1, Len(results)),
                        results |-> results] :
                       results \in {cli_to_allen_loop(t, lut, calls, 1,
                                                      <<>>)} } : TRUE

(***************************************************************************)
(* Inputs of the Allen commands: an ontology of at most MaxNodes nodes     *)
(* whose ids follow one of three layouts, a lookup table made of the first *)
(* rows (at most MaxRows) of a fixed table, volumes of at most MaxVox      *)
(* voxels, command lines of at most MaxFiles files.                        *)
(***************************************************************************)
MaxRows == 4
MaxFiles == 2

AllenNames ==
    << <<"B", "r", "a", "i", "n">>,
       <<"G", "y", "r", "i", ",", " ", "A">>,
       Cuneus,
       InsularLobe,
       Insula >>
AllenAcronyms ==
    << <<"B", "r">>, <<"G", "A">>, <<"C", "u">>, <<"I", "L">>, <<"I", "n">> >>

\* ids with the four long prefixes in the suffix ranges to_allen documents;
\* ids whose suffixes meet once the prefixes are removed; ids that meet an
\* unmatched NextBrain label or exceed 16 bits
AllenIdLayouts ==
    { <<146035050, 266441050, 267499050, 146034950, 10962>>,
      <<10962, 146035050, 146034050, 12176, 50>>,
      <<146035007, 40000, 12150, 12176, 10962>> }

\* every node but the first hangs below the root or below the node before
BranchMaps(n) == { p \in ParentMaps(n) : \A j \in 2..n : p[j] \in {1, j - 1} }

AllenTrees ==
    { [parent |-> p,
       id |-> [k \in DOMAIN p |-> ids[k]],
       name |-> [k \in DOMAIN p |-> AllenNames[k]],
       acronym |-> [k \in DOMAIN p |-> AllenAcronyms[k]],
       haskey |-> [k \in DOMAIN p |-> ~IsLeaf(p, k)]] :
      p \in UNION { BranchMaps(n) : n \in 1..MaxNodes },
      ids \in AllenIdLayouts }

NextBrainRows ==
    << [ID |-> 1, NAME |-> <<"B", "r", "a", "i", "n">>],
       [ID |-> 3, NAME |-> <<"G", "y", "r", "i", "-", "A">>],
       [ID |-> 2005, NAME |-> <<"c", "t", "x", "-", "r", "h", "-",
                                "c", "u", "n", "e", "u", "s">>],
       [ID |-> 7, NAME |-> <<"U", "n", "k", "n", "o", "w", "n">>],
       [ID |-> 1005, NAME |-> <<"c", "t", "x", "-", "l", "h", "-",
                                "c", "u", "n", "e", "u", "s">>],
       [ID |-> 2035, NAME |-> <<"c", "t", "x", "-", "r", "h", "-",
                                "i", "n", "s", "u", "l", "a">>] >>

NextBrainLuts == { SubSeq(NextBrainRows, 1, n) : n \in 1..MaxRows }

\* background and the last label of the table
LutVoxelValues(lut) == {0, lut[Len(lut)].ID}

\* how the input is given and what is to be saved
InputForms ==
    { <<"image", "no">>, <<"array", "no">>,
      <<"path", "default">>, <<"image", "given">> }

CortexOntologies == {"gyr", "developmental", "dk"}

InitAllen ==
    /\ allen_ont \in AllenTrees
    /\ nextbrain_lut \in NextBrainLuts
    /\ supersynth_map = NoData
    /\ op = "none"
    /\ arg = <<>>
    /\ ret = <<>>

CallGetNextbrain2AllenMap ==
    /\ op = "none"
    /\ Loaded = <<TRUE, TRUE, FALSE>>
    /\ \E cortex_ontology \in CortexOntologies :
        /\ op' = "get_nextbrain2allen_map"
        /\ arg' = [cortex_ontology |-> cortex_ontology]
        /\ ret' = get_nextbrain2allen_map(allen_ont, nextbrain_lut,
                                          cortex_ontology)
    /\ UNCHANGED <<allen_ont, nextbrain_lut, supersynth_map>>

CallToAllen ==
    /\ op = "none"
    /\ Loaded = <<TRUE, TRUE, FALSE>>
    /\ \E ontology \in CortexOntologies :
        \E built \in {get_nextbrain2allen_map(allen_ont, nextbrain_lut,
                                               ontology)} :
            \E form \in InputForms,
               dat \in VolumeData(LutVoxelValues(nextbrain_lut),
                                  MaxNextbrainLabel(nextbrain_lut) + 1),
               compat16bits \in BOOLEAN :
                /\ op' = "to_allen"
                /\ arg' = [nextbrain |->
                               Volume(form[1], dat, <<Len(dat), 1, 1>>),
                           ontology |-> ontology,
                           compat16bits |-> compat16bits, save |-> form[2]]
                /\ ret' = ToAllenWith(built, arg'.nextbrain, ontology,
                                      compat16bits, form[2])
    /\ UNCHANGED <<allen_ont, nextbrain_lut, supersynth_map>>

CliAllen ==
    /\ op = "none"
    /\ Loaded = <<TRUE, TRUE, FALSE>>
    /\ \E n \in 1..MaxFiles, m \in 0..(MaxFiles + 1),
          cortex_ontology \in {"gyr", "dev", "dk"} :
        \E input \in [1..n -> [1..1 -> LutVoxelValues(nextbrain_lut)]],
           output \in [1..m -> {"given"}] :
            /\ op' = "cli_allen"
            /\ arg' = [input |-> input, output |-> output,
                       cortex_ontology |-> cortex_ontology]
            /\ ret' = cli_to_allen(allen_ont, nextbrain_lut, input, output,
                                   cortex_ontology)
    /\ UNCHANGED <<allen_ont, nextbrain_lut, supersynth_map>>

NextAllen == CallGetNextbrain2AllenMap \/ CallToAllen \/ CliAllen

SpecAllen == InitAllen /\ [][NextAllen]_vars

(***************************************************************************)
(* Inputs of get_nextbrain2allen_map for the cortical labels: ontologies   *)
(* of at most MaxNodes + 1 nodes of any shape, each node bearing one of    *)
(* two names of the Allen ontology (as the documentation of the `allen`    *)
(* command spells them, or with another capitalization), and the first     *)
(* rows (at most MaxRows + 1) of a table of cortical labels.               *)
(***************************************************************************)
CortexNodes ==
    << { [name |-> <<"C", "u", "n", "e", "u", "s">>, id |-> 10001],
         [name |-> TransverseTemporalGyrus, id |-> 12144] },
       { [name |-> Cuneus, id |-> 12150],
         [name |-> InsularLobe, id |-> 12176] },
       { [name |-> Insula, id |-> 10003],
         [name |-> <<"G", "y", "r", "i", ",", " ", "A">>, id |-> 10153] },
       { [name |-> <<"I", "n", "s", "u", "l", "a">>, id |-> 10004],
         [name |-> OccipitalNeocortex, id |-> 10268] },
       { [name |-> <<"g", "y", "r", "i", " ", "a">>, id |-> 10005],
         [name |-> TemporalNeocortex, id |-> 10235] } >>

CortexTrees ==
    UNION { { [parent |-> p,
               id |-> [k \in DOMAIN p |-> nodes[k].id],
               name |-> [k \in DOMAIN p |-> nodes[k].name],
               acronym |-> [k \in DOMAIN p |-> <<>>],
               haskey |-> [k \in DOMAIN p |-> ~IsLeaf(p, k)]] :
              nodes \in { q \in [DOMAIN p -> UNION Range(CortexNodes)] :
                            \A k \in DOMAIN p : q[k] \in CortexNodes[k] } } :
            p \in UNION { ParentMaps(n) : n \in 1..(MaxNodes + 1) } }

CortexRows ==
    << [ID |-> 2005, NAME |-> PrefixCtx \o PrefixRh \o Cuneus],
       [ID |-> 2034, NAME |-> PrefixCtx \o PrefixRh \o TransverseTemporal],
       [ID |-> 1005, NAME |-> PrefixCtxLh \o Cuneus],
       [ID |-> 2035, NAME |-> PrefixCtx \o PrefixRh \o Insula],
       [ID |-> 3, NAME |-> <<"G", "y", "r", "i", "-", "A">>],
       [ID |-> 1035, NAME |-> PrefixCtxLh \o Insula] >>

CortexLuts == { SubSeq(CortexRows, 1, n) : n \in 1..(MaxRows + 1) }

InitCortex ==
    /\ allen_ont \in CortexTrees
    /\ nextbrain_lut \in CortexLuts
    /\ supersynth_map = NoData
    /\ op = "none"
    /\ arg = <<>>
    /\ ret = <<>>

NextCortex == CallGetNextbrain2AllenMap

SpecCortex == InitCortex /\ [][NextCortex]_vars

(***************************************************************************)
(* to_supersynth.py: get_nextbrain2supersynth_map and to_supersynth.       *)
(*                                                                         *)
(* supersynth_map is the correspondence read from                          *)
(* NextBrainToSuperSynth.yaml: a sequence of entries [key, labels], in the *)
(* order of the file.  SuperSynthLut stands for SuperSynthWholeLUT.txt.    *)
(***************************************************************************)
SideL == <<"L">>
SideR == <<"R">>
SideLeft == <<"L", "E", "F", "T">>
SideRight == <<"R", "I", "G", "H", "T">>

\* _is_side(side): side.upper() exists on strings only (a member of Side
\* is a string); a Path, an image and an array have no such method
IsSide(side) ==
    IF side.kind \notin {"str", "Side"} THEN "AttributeError"
    ELSE IF upper(side.value) \in {SideL, SideR, SideLeft, SideRight}
    THEN "yes" ELSE "no"

\* Side(getattr(Side, x.upper(), x))
EnsureSide(x) ==
    CASE upper(x) \in {SideL, SideLeft} -> "L"
      [] upper(x) \in {SideR, SideRight} -> "R"
      [] x \in {SideL, SideR} -> IF x = SideL THEN "L" ELSE "R"
      [] OTHER -> "ValueError"

lateralized_labels ==
    { "Cerebral-White-Matter", "Cerebral-Cortex", "Lateral-Ventricle",
      "Inf-Lat-Vent", "Cerebellum-White-Matter", "Cerebellum-Cortex",
      "Thalamus", "Caudate", "Putamen", "Pallidum", "Hippocampus",
      "Amygdala", "Accumbens-area", "VentralDC", "Claustrum",
      "HypoThal-noMB", "Fornix", "MammillaryBody", "Basal-Forebrain",
      "SeptalNuc" }

\* the rows of the SuperSynth lookup table that the correspondences of the
\* model name
SuperSynthLut ==
    ("Left-Cerebral-White-Matter" :> 2) @@ ("Left-Cerebral-Cortex" :> 3) @@
    ("Left-Thalamus" :> 10) @@ ("Brain-Stem" :> 16) @@
    ("Right-Cerebral-White-Matter" :> 41) @@ ("Right-Cerebral-Cortex" :> 42) @@
    ("Right-Thalamus" :> 49) @@
    ("Left-Claustrum" :> 138) @@ ("Right-Claustrum" :> 139)

\* if side == Side.LEFT: nextbrain2supersynth[nextbrain2supersynth >= 2000]
\* -= 1000, applied to the table as created
MapRightToLeftNone(tbl, side) == tbl
MapRightToLeft(tbl, side) ==
    IF side = "L" THEN [tbl EXCEPT !.base = "arange_right_to_left"] ELSE tbl

\* the name looked up for one key of the correspondence
SuperSynthLabel(key, side, claustrum) ==
    LET label == IF key = "Claustrum" /\ ~claustrum
                 THEN "Cerebral-White-Matter" ELSE key
        side_prefix == IF side = "L" THEN "Left-" ELSE "Right-"
    IN  IF label \in lateralized_labels THEN side_prefix \o label ELSE label

RECURSIVE AssignLabels(_, _, _, _)
\* only the first label of the list is assigned
AssignLabelsHead(labels, i, supersynth_id, st) ==
    IF labels = <<>> THEN st
    ELSE IF InBounds(st.table, labels[1])
    THEN [st EXCEPT !.table =
             SetAt(@, WrapIndex(@, labels[1]), supersynth_id)]
    ELSE [st EXCEPT !.status = "IndexError"]
\* for label in nextbrain_labels: nextbrain2supersynth[label] = supersynth_id
AssignLabels(labels, i, supersynth_id, st) ==
    IF i > Len(labels) \/ st.status # "ok" THEN st
    ELSE AssignLabels(labels, i + 1, supersynth_id,
            IF InBounds(st.table, labels[i])
            THEN [st EXCEPT !.table =
                     SetAt(@, WrapIndex(@, labels[i]), supersynth_id)]
            ELSE [st EXCEPT !.status = "IndexError"])

RECURSIVE AssignEntries(_, _, _, _, _)
\* for supersynth_label, nextbrain_labels in supersynth_map.items(): ...
\* name2label raises IndexError for a name the lookup table does not hold
AssignEntries(smap, e, side, claustrum, st) ==
    IF e > Len(smap) \/ st.status # "ok" THEN st
    ELSE LET name == SuperSynthLabel(smap[e].key, side, claustrum)
         IN  AssignEntries(smap, e + 1, side, claustrum,
                IF name \in DOMAIN SuperSynthLut
                THEN AssignLabels(smap[e].labels, 1, SuperSynthLut[name], st)
                ELSE [st EXCEPT !.status = "IndexError"])

MapFailure(e) == [status |-> e, table |-> Zeros(0)]

\* get_nextbrain2supersynth_map(side, claustrum)
get_nextbrain2supersynth_map(lut, smap, side, claustrum) ==
    LET s == EnsureSide(side)
        built == AssignEntries(smap, 1, s, claustrum,
                    [status |-> "ok",
                     table |-> MapRightToLeft(
                                   Arange(MaxNextbrainLabel(lut) + 1), s)])
    IN  IF s = "ValueError" THEN MapFailure("ValueError")
        ELSE IF built.status # "ok" THEN MapFailure(built.status)
        ELSE built

\* aseg_dat = zeros_like(...); aseg_dat[side == 1] = mapping_left[...];
\* aseg_dat[side == 2] = mapping_right[...]
RECURSIVE ExtentsProduct(_, _)
\* the number of elements spanned by the axes k, k + 1, ... of a shape
ExtentsProduct(shape, k) ==
    IF k > Len(shape) THEN 1 ELSE shape[k] * ExtentsProduct(shape, k + 1)

\* arr[mask] with a boolean mask: numpy accepts a mask with no more axes
\* than arr whose extents equal the leading extents of arr, and raises
\* IndexError otherwise
BooleanIndexOk(shape, maskshape) ==
    /\ Len(maskshape) <= Len(shape)
    /\ \A k \in DOMAIN maskshape : maskshape[k] = shape[k]

\* the element of the mask that selects voxel i (volumes are held in C
\* order): a mask with fewer axes selects whole blocks of the trailing axes
MaskIndex(shape, maskshape, i) ==
    ((i - 1) \div ExtentsProduct(shape, Len(maskshape) + 1)) + 1

GatherBySideNonzero(left, right, nextbrain, side) ==
    [i \in DOMAIN nextbrain.dat |->
        LET m == side.dat[MaskIndex(nextbrain.shape, side.shape, i)]
        IN  CASE m = 1 -> At(left, WrapIndex(left, nextbrain.dat[i]))
              [] m # 0 -> At(right, WrapIndex(right, nextbrain.dat[i]))
              [] OTHER -> 0]
GatherBySide(left, right, nextbrain, side) ==
    [i \in DOMAIN nextbrain.dat |->
        LET m == side.dat[MaskIndex(nextbrain.shape, side.shape, i)]
        IN  CASE m = 1 -> At(left, WrapIndex(left, nextbrain.dat[i]))
              [] m = 2 -> At(right, WrapIndex(right, nextbrain.dat[i]))
              [] OTHER -> 0]

SuperSavedAs(nextbrain, save) ==
    CASE save = "no" -> [to |-> "none", stem |-> "", suffix |-> ""]
      [] save = "given" -> [to |-> "given", stem |-> "", suffix |-> ""]
      [] OTHER -> [to |-> "default",
                   stem |-> IF nextbrain.kind = "path" THEN "input" ELSE "seg",
                   suffix |-> "aseg+aparc"]

SuperFailure(e) ==
    [status |-> e, mode |-> "none", dat |-> <<>>, shape |-> <<>>,
     table |-> Zeros(0), left |-> Zeros(0), right |-> Zeros(0),
     saved |-> [to |-> "none", stem |-> "", suffix |-> ""]]

\* to_supersynth, from the two remap tables on.  A side that is a string
\* but no hemisphere name is a file name: its dat is the label map read
\* from it, without shape when there is no such file.
ToSupersynthWith(mapping_left, mapping_right, nextbrain, side, save) ==
    LET is_side == IsSide(side)
        fixed == is_side = "yes"
        mapping == IF EnsureSide(side.value) = "L"
                   THEN mapping_left.table ELSE mapping_right.table
        used == IF fixed THEN DOMAIN nextbrain.dat
                ELSE { i \in DOMAIN nextbrain.dat :
                         side.dat[MaskIndex(nextbrain.shape, side.shape, i)]
                             \in {1, 2} }
    IN  IF is_side = "AttributeError" THEN SuperFailure("AttributeError")
        ELSE IF ~fixed /\ side.shape = <<>>
        THEN SuperFailure("FileNotFoundError")
        ELSE IF mapping_left.status # "ok"
        THEN SuperFailure(mapping_left.status)
        ELSE IF mapping_right.status # "ok"
        THEN SuperFailure(mapping_right.status)
        ELSE IF ~fixed /\ ~BooleanIndexOk(nextbrain.shape, side.shape)
        THEN SuperFailure("IndexError") \* boolean index of another shape
        ELSE IF \E i \in used : ~InBounds(mapping_left.table, nextbrain.dat[i])
        THEN SuperFailure("IndexError")
        ELSE IF ~IsSpatialImage(nextbrain)
        THEN SuperFailure("TypeError") \* nb.Nifti1Image(aseg_dat): no affine
        ELSE [status |-> "ok",
              mode |-> IF fixed THEN "side" ELSE "mask",
              dat |-> IF fixed THEN Gather(mapping, nextbrain.dat)
                      ELSE GatherBySide(mapping_left.table,
                                        mapping_right.table,
                                        nextbrain, side),
              shape |-> nextbrain.shape,
              table |-> IF fixed THEN mapping ELSE Zeros(0),
              left |-> mapping_left.table, right |-> mapping_right.table,
              saved |-> SuperSavedAs(nextbrain, save),
              affine |-> ReturnedAffine(nextbrain, save),
              dtype |-> "i2", input |-> AfterCall(nextbrain, "i2")]

\* to_supersynth(nextbrain, side, claustrum, save)
to_supersynth(lut, smap, nextbrain, side, claustrum, save) ==
    ToSupersynthWith(
        get_nextbrain2supersynth_map(lut, smap, SideL, claustrum),
        get_nextbrain2supersynth_map(lut, smap, SideR, claustrum),
        nextbrain, side, save)

(***************************************************************************)
(* Inputs of the SuperSynth functions: the first rows of the NextBrain     *)
(* table, the first entries (at most MaxKeys) of a fixed correspondence,   *)
(* volumes of at most MaxVox voxels.                                       *)
(***************************************************************************)
MaxKeys == 3

MapEntries ==
    << [key |-> "Thalamus", labels |-> <<1>>],
       [key |-> "Brain-Stem", labels |-> <<3, 1>>],
       [key |-> "Claustrum", labels |-> <<7>>],
       [key |-> "Cerebral-Cortex", labels |-> <<2005, 1005>>],
       [key |-> "Septum", labels |-> <<3>>] >>

SuperSynthMaps == { SubSeq(MapEntries, 1, n) : n \in 1..MaxKeys }

SideNames ==
    { SideL, SideR, <<"l", "e", "f", "t">>, <<"R", "i", "g", "h", "t">>,
      <<"x">> }

\* the grids of n voxels: a vector, a column and a row
Shapes(n) == { <<n>>, <<n, 1>>, <<1, n>> }

\* a side given as a string: a hemisphere name, or the name of a file
\* holding the label map dat of the given shape (no shape: no such file)
StrSide(value, dat, shape) ==
    [kind |-> "str", value |-> value, dat |-> dat, shape |-> shape]

\* a side given as an object that is no string (a Path, an image or an
\* array) holding the label map dat of the given shape
ObjectSide(kind, dat, shape) ==
    [kind |-> kind, value |-> <<>>, dat |-> dat, shape |-> shape]

\* a hemisphere name, a member of Side, the name of no file, a label map
\* that is not a string (a Path, an image, an array), the name of a label
\* map of the volume's shape with values in 0..3, or the name of a label
\* map of another shape (of no more voxels than the volume has, plus one)
\* with values 1, 2, 1, ...
SideInputs(nextbrain) ==
    LET n == Len(nextbrain.dat)
    IN  { StrSide(SideL, <<>>, <<>>),
          StrSide(<<"r", "i", "g", "h", "t">>, <<>>, <<>>),
          [kind |-> "Side", value |-> SideR, dat |-> <<>>, shape |-> <<>>],
          StrSide(<<"x">>, <<>>, <<>>) }
        \cup { ObjectSide(kind, [i \in 1..n |-> 1], nextbrain.shape) :
                   kind \in {"Path", "image", "array"} }
        \cup { StrSide(<<"m">>, mask, nextbrain.shape) :
                   mask \in [1..n -> {0, 1, 2, 3}] }
        \cup { StrSide(<<"m">>, [i \in 1..ExtentsProduct(shape, 1) |->
                                    ((i - 1) % 2) + 1], shape) :
                   shape \in UNION { Shapes(m) : m \in 1..(n + 1) }
                                \ {nextbrain.shape} }

InitSuper ==
    /\ allen_ont = NoData
    /\ nextbrain_lut \in NextBrainLuts
    /\ supersynth_map \in SuperSynthMaps
    /\ op = "none"
    /\ arg = <<>>
    /\ ret = <<>>

CallGetNextbrain2SupersynthMap ==
    /\ op = "none"
    /\ Loaded = <<FALSE, TRUE, TRUE>>
    /\ \E side \in SideNames, claustrum \in BOOLEAN :
        /\ op' = "get_nextbrain2supersynth_map"
        /\ arg' = [side |-> side, claustrum |-> claustrum]
        /\ ret' = get_nextbrain2supersynth_map(nextbrain_lut, supersynth_map,
                                               side, claustrum)
    /\ UNCHANGED <<allen_ont, nextbrain_lut, supersynth_map>>

CallToSupersynth ==
    /\ op = "none"
    /\ Loaded = <<FALSE, TRUE, TRUE>>
    /\ \E claustrum \in BOOLEAN :
        \E mapping_left \in {get_nextbrain2supersynth_map(
                                 nextbrain_lut, supersynth_map, SideL,
                                 claustrum)},
           mapping_right \in {get_nextbrain2supersynth_map(
                                  nextbrain_lut, supersynth_map, SideR,
                                  claustrum)} :
            \E form \in InputForms,
               dat \in VolumeData(LutVoxelValues(nextbrain_lut),
                                  MaxNextbrainLabel(nextbrain_lut) + 1) :
                \E shape \in Shapes(Len(dat)) :
                    \E nextbrain \in {Volume(form[1], dat, shape)} :
                        \E side \in SideInputs(nextbrain) :
                            /\ op' = "to_supersynth"
                            /\ arg' = [nextbrain |-> nextbrain,
                                       side |-> side,
                                       claustrum |-> claustrum,
                                       save |-> form[2]]
                            /\ ret' = ToSupersynthWith(
                                          mapping_left, mapping_right,
                                          nextbrain, side, form[2])
    /\ UNCHANGED <<allen_ont, nextbrain_lut, supersynth_map>>

NextSuper == CallGetNextbrain2SupersynthMap \/ CallToSupersynth

SpecSuper == InitSuper /\ [][NextSuper]_vars

(***************************************************************************)
(* The remap builders together, and the translations together.             *)
(***************************************************************************)
InitBuilders == InitSimplify \/ InitAllen

NextBuilders == CallGetAllen2SimpleMap \/ CallGetNextbrain2AllenMap

SpecBuilders == InitBuilders /\ [][NextBuilders]_vars

InitTranslate == InitSimplify \/ InitAllen \/ InitSuper

NextTranslate == CallSimplify \/ CallToAllen \/ CallToSupersynth

SpecTranslate == InitTranslate /\ [][NextTranslate]_vars

(***************************************************************************)
(* Properties of the translations (SpecTranslate).                         *)
(***************************************************************************)
\* the volume given to the call
InputDat == IF op = "simplify" THEN arg.allen.dat ELSE arg.nextbrain.dat

\* the remap table of the call, from the builder of the operation
TableOfCall ==
    CASE op = "simplify" ->
            get_allen2simple_map(allen_ont, arg.labels,
                                 arg.hide_missing).table
      [] op = "to_allen" ->
            Compact16(get_nextbrain2allen_map(allen_ont, nextbrain_lut,
                                              arg.ontology).table,
                      arg.compat16bits)
      [] OTHER ->
            get_nextbrain2supersynth_map(nextbrain_lut, supersynth_map,
                                         arg.side.value, arg.claustrum).table

SingleTableCall ==
    \/ op \in {"simplify", "to_allen"}
    \/ op = "to_supersynth" /\ IsSide(arg.side) = "yes"

\* C1: a call of simplify, of to_allen, or of to_supersynth with a fixed
\* side, that returns, returns a volume of the shape of its input whose
\* value at every voxel index idx is table[input[idx]], table being the
\* remap table built for the call, when every value of the input lies in
\* [0, len(table)).
C1_PureGather ==
    (SingleTableCall /\ ret.status = "ok") =>
        \A table \in {TableOfCall} :
            (\A idx \in DOMAIN InputDat : InputDat[idx] \in Indices(table))
            => /\ ret.table = table
               /\ DOMAIN ret.dat = DOMAIN InputDat
               /\ \A idx \in DOMAIN InputDat :
                    ret.dat[idx] = At(table, InputDat[idx])

\* to_supersynth with a hemisphere name has translated two voxels of
\* different labels to different values, one of them not its own label.
C1_Witness ==
    /\ op = "to_supersynth"
    /\ ret.status = "ok"
    /\ ret.mode = "side"
    /\ \E i, j \in DOMAIN ret.dat :
        /\ arg.nextbrain.dat[i] # arg.nextbrain.dat[j]
        /\ ret.dat[i] # ret.dat[j]
        /\ ret.dat[j] # arg.nextbrain.dat[j]

(***************************************************************************)
(* Properties of the remap builders (SpecBuilders).                        *)
(***************************************************************************)
\* the nodes that match the requested labels and none of whose proper
\* ancestors does, and the ids get_allen2simple_map assigns for them
FirstMatches ==
    { k \in Uncovered : NodeMatches(allen_ont, k, Requested) }
SimpleAssigned ==
    { allen_ont.id[j] :
        j \in UNION { {k} \cup Descendants(allen_ont, k) :
                        k \in FirstMatches } }

\* indices probed in the table of 2**29 entries: both ends, every id of the
\* ontologies and its neighbours
SimpleProbes ==
    {0, 1, AllenTableLen - 1}
    \cup UNION { {SimpleIds[n] - 1, SimpleIds[n], SimpleIds[n] + 1} :
                 n \in DOMAIN SimpleIds }

\* the rows of the NextBrain table whose name, once normalized, is the
\* normalized name of a node of the ontology
AllenAssigned ==
    LET cortex_map == CortexMap(EnsureCortexOnto(arg.cortex_ontology))
    IN  { nextbrain_lut[r].ID :
            r \in { q \in DOMAIN nextbrain_lut :
                      /\ ~startswith(nextbrain_lut[q].NAME, PrefixCtxLh)
                      /\ \E k \in Nodes(allen_ont) :
                            normalize_name(allen_ont.name[k]) =
                            NextbrainNorm(nextbrain_lut[q].NAME,
                                          cortex_map) } }

\* C4: in the table get_allen2simple_map returns, every index that no match
\* assigns holds 0 when hide_missing is set and the index itself otherwise;
\* in the table get_nextbrain2allen_map returns, every index that no match
\* assigns holds the index itself.
C4_DefaultPolicy ==
    /\ op = "get_allen2simple_map" =>
        /\ ret.table.len = AllenTableLen
        /\ \A i \in SimpleProbes \ SimpleAssigned :
            At(ret.table, i) = IF arg.hide_missing THEN 0 ELSE i
    /\ (op = "get_nextbrain2allen_map" /\ ret.status = "ok") =>
        /\ ret.table.len = MaxNextbrainLabel(nextbrain_lut) + 1
        /\ \A i \in Indices(ret.table) \ AllenAssigned : At(ret.table, i) = i

\* A table built with hide_missing holds an assigned id and, at the id of
\* a node that no match covers, 0.
C4_Witness ==
    /\ op = "get_allen2simple_map"
    /\ arg.hide_missing
    /\ SimpleAssigned # {}
    /\ \E k \in Nodes(allen_ont) :
        /\ allen_ont.id[k] \notin SimpleAssigned
        /\ At(ret.table, allen_ont.id[k]) = 0

(***************************************************************************)
(* Properties of get_nextbrain2supersynth_map (SpecSuper).                 *)
(***************************************************************************)
\* the source indices listed under some key of the correspondence
Listed ==
    UNION { Range(supersynth_map[e].labels) : e \in DOMAIN supersynth_map }

MapBuilt == op = "get_nextbrain2supersynth_map" /\ ret.status = "ok"

\* C5 as stated: for both sides, every source index that is listed under no
\* key of the correspondence maps to itself.
C5_TotalityBothSides ==
    MapBuilt => \A i \in Indices(ret.table) \ Listed : At(ret.table, i) = i

\* C5: every source index i that is listed under no key of the
\* correspondence maps to itself for the right side, and for the left side
\* maps to itself when i < 2000 and to i - 1000 when i >= 2000.
C5_Totality ==
    MapBuilt =>
        \A i \in Indices(ret.table) \ Listed :
            At(ret.table, i) =
                IF EnsureSide(arg.side) = "L" /\ i >= 2000
                THEN i - 1000 ELSE i

\* The table of the left side has been built over labels that reach 2000,
\* with a listed index overwritten and unlisted ones on both sides of 2000.
C5_Witness ==
    /\ MapBuilt
    /\ EnsureSide(arg.side) = "L"
    /\ ret.table.len > 2001
    /\ \E i \in Listed : At(ret.table, i) # i
    /\ At(ret.table, 2001) = 1001
    /\ At(ret.table, 5) = 5

(***************************************************************************)
(* Properties of the 16-bit compaction of to_allen (SpecAllen).            *)
(***************************************************************************)
\* the table get_nextbrain2allen_map returns for the call (bound once
\* where a property reads many of its entries)
BuiltForCall ==
    get_nextbrain2allen_map(allen_ont, nextbrain_lut, arg.ontology).table

\* the output argument the command line gives for the i-th input
CliOutput(i) == CliOutputs(Len(arg.input), arg.output).list[i]

\* C6: to_allen called without compat16bits translates with the very table
\* get_nextbrain2allen_map returns, and every call the `allen` command
\* makes is without compat16bits and has the output argument of its input
\* as save target.
C6_CompactionOptIn ==
    /\ (op = "to_allen" /\ ret.status = "ok" /\ ~arg.compat16bits) =>
            ret.table = BuiltForCall
    /\ op = "cli_allen" =>
        \A i \in DOMAIN ret.calls :
            /\ ~ret.calls[i].compat16bits
            /\ ret.calls[i].save = CliOutput(i)
            /\ ret.results[i].status = "ok" =>
                /\ ret.results[i].table.post = "none"
                /\ ret.results[i].saved.to # "none"

\* The `allen` command, given one input and one output file name, has run
\* to_allen with compat16bits set and nothing to save.
C6_Witness ==
    /\ op = "cli_allen"
    /\ arg.output = <<"given">>
    /\ ret.status = "ok"
    /\ ret.calls[1].compat16bits
    /\ ret.calls[1].save = "no"
    /\ ret.results[1].table.post = "int16"
    /\ ret.results[1].saved.to = "none"

\* two entries hold distinct destination ids that the rewriting makes equal
CompactionCollides(tbl) ==
    \E i \in DOMAIN tbl.over : \E j \in Indices(tbl) :
        /\ RawAt(tbl, i) # RawAt(tbl, j)
        /\ Rewrite16(RawAt(tbl, i)) = Rewrite16(RawAt(tbl, j))

\* C7: to_allen called with compat16bits on a table two of whose distinct
\* destination ids receive the same compacted value fails with an error.
C7_CollisionsSurfaced ==
    (op = "to_allen" /\ arg.compat16bits) =>
        \A built \in {BuiltForCall} :
            CompactionCollides(built) => ret.status # "ok"

\* to_allen has returned under compat16bits with two entries of its table
\* equal that held the distinct ids 146035050 and 146034050.
C7_Witness ==
    /\ op = "to_allen"
    /\ arg.compat16bits
    /\ ret.status = "ok"
    /\ \E built \in {BuiltForCall} : \E i, j \in DOMAIN built.over :
        /\ RawAt(built, i) = 146035050
        /\ RawAt(built, j) = 146034050
        /\ At(ret.table, i) = At(ret.table, j)

\* C8: after the compaction every value of the table lies in the signed
\* 16-bit range before the cast, and two entries that held distinct
\* destination ids before the compaction hold distinct values after it.
C8_FitsAndDistinct ==
    (op = "to_allen" /\ arg.compat16bits /\ ret.status = "ok") =>
        \A built \in {BuiltForCall} :
            /\ \A i \in Indices(built) :
                Rewrite16(RawAt(built, i)) \in -32768..32767
            /\ \A i \in DOMAIN built.over : \A j \in Indices(built) :
                RawAt(built, i) # RawAt(built, j) =>
                    At(ret.table, i) # At(ret.table, j)

\* to_allen has returned under compat16bits a table in which the id 40000
\* has become -25536.
C8_Witness ==
    /\ op = "to_allen"
    /\ arg.compat16bits
    /\ ret.status = "ok"
    /\ \E built \in {BuiltForCall} : \E i \in DOMAIN built.over :
        /\ RawAt(built, i) = 40000
        /\ At(ret.table, i) = -25536

\* the rule as documented, on the value v of an entry
PrefixOffsetRule(v) ==
    IF v \div 1000 \in {146035, 146034} THEN v % 1000
    ELSE IF v \div 1000 = 266441 THEN 3000 + (v % 1000)
    ELSE IF v \div 1000 = 267499 THEN 9000 + (v % 1000)
    ELSE v

\* C9: in the table to_allen translates with under compat16bits, every
\* entry is the 16-bit cast of: v mod 1000 when the entry v of the built
\* table has v div 1000 in {146035, 146034}; 3000 + (v mod 1000) when v div
\* 1000 = 266441; 9000 + (v mod 1000) when v div 1000 = 267499; v itself
\* otherwise.
C9_PrefixOffsetRule ==
    (op = "to_allen" /\ arg.compat16bits /\ ret.status = "ok") =>
        \A built \in {BuiltForCall} : \A i \in Indices(built) :
            At(ret.table, i) = CastInt16(PrefixOffsetRule(RawAt(built, i)))

\* A compacted table whose built entries carried the prefixes 146035,
\* 266441 and 267499: 146035050 has become 50 and 266441050 has become 3050.
C9_Witness ==
    /\ op = "to_allen"
    /\ arg.compat16bits
    /\ ret.status = "ok"
    /\ \E built \in {BuiltForCall} : \E i, j, k \in DOMAIN built.over :
        /\ RawAt(built, i) = 146035050 /\ At(ret.table, i) = 50
        /\ RawAt(built, j) = 266441050 /\ At(ret.table, j) = 3050
        /\ RawAt(built, k) \div 1000 = 267499
        /\ At(ret.table, k) = 9000 + (RawAt(built, k) % 1000)

(***************************************************************************)
(* Properties of to_supersynth with a side mask (SpecSuper).               *)
(***************************************************************************)
\* the call names a label map that exists, so that the dual-table branch
\* is the one taken
MaskCall ==
    /\ op = "to_supersynth"
    /\ IsSide(arg.side) = "no"
    /\ arg.side.shape # <<>>

\* C13: a call of to_supersynth with a side mask on the grid of the input,
\* that returns, returns at every voxel left_table[input] where the mask is
\* 1, right_table[input] where the mask is 2, and 0 where the mask holds
\* any other value, 0 and 3 included (table[v] as numpy indexes: a negative
\* v counts from the end of the table).
C13_DualTable ==
    (MaskCall /\ arg.side.shape = arg.nextbrain.shape
              /\ ret.status = "ok") =>
        \A tables \in {[side \in {SideL, SideR} |->
                          get_nextbrain2supersynth_map(
                              nextbrain_lut, supersynth_map, side,
                              arg.claustrum).table]} :
            /\ ret.mode = "mask"
            /\ ret.shape = arg.nextbrain.shape
            /\ DOMAIN ret.dat = DOMAIN arg.nextbrain.dat
            /\ \A idx \in DOMAIN arg.nextbrain.dat :
                ret.dat[idx] =
                    CASE arg.side.dat[idx] = 1 ->
                            At(tables[SideL],
                               WrapIndex(tables[SideL],
                                         arg.nextbrain.dat[idx]))
                      [] arg.side.dat[idx] = 2 ->
                            At(tables[SideR],
                               WrapIndex(tables[SideR],
                                         arg.nextbrain.dat[idx]))
                      [] OTHER -> 0

\* A mask holding 3 at a voxel of nonzero label and 1 or 2 at another has
\* given 0 at the first and a nonzero SuperSynth label at the second, the
\* two tables disagreeing on that label.
C13_Witness ==
    /\ MaskCall
    /\ arg.side.shape = arg.nextbrain.shape
    /\ ret.status = "ok"
    /\ \E i, j \in DOMAIN ret.dat :
        /\ arg.side.dat[i] = 3
        /\ arg.nextbrain.dat[i] # 0
        /\ ret.dat[i] = 0
        /\ arg.side.dat[j] \in {1, 2}
        /\ ret.dat[j] # 0
        /\ At(ret.left, arg.nextbrain.dat[j])
               # At(ret.right, arg.nextbrain.dat[j])

\* C14: a call of to_supersynth with a mask whose grid shape differs from
\* that of the input, in an extent or in the number of axes, does not
\* return.
C14_ShapeMismatchFails ==
    (MaskCall /\ arg.side.shape # arg.nextbrain.shape) => ret.status # "ok"

\* A mask of one axis has been accepted for a volume of two axes whose
\* first extent is the mask's, and a volume came back.
C14_Witness ==
    /\ MaskCall
    /\ Len(arg.side.shape) < Len(arg.nextbrain.shape)
    /\ arg.side.shape[1] = arg.nextbrain.shape[1]
    /\ ret.status = "ok"
    /\ ret.shape = arg.nextbrain.shape
    /\ \E i \in DOMAIN ret.dat : ret.dat[i] # 0

(***************************************************************************)
(* combine_hemis.py: combine_hemis.                                        *)
(*                                                                         *)
(* A volume is a record [kind, shape, dat, dtype, affine]: shape holds the *)
(* three extents, dat maps every index triple (from 0) to its value,       *)
(* dtype is the type of the data object ("u1" or "u2"), and affine is      *)
(* [lin, trans], the upper-left 3x3 block and the last column of the 4x4   *)
(* matrix.  Affines have integer entries; the product with the inverse of  *)
(* the left affine is held as integer numerators over one denominator.     *)
(***************************************************************************)
Axes == 1..3

Identity3 == << <<1, 0, 0>>, <<0, 1, 0>>, <<0, 0, 1>> >>

\* In the operators below a value used more than once is bound once, as
\* the only element of a set.
MatVec(matrix, vector) ==
    CHOOSE product \in
        { [r \in Axes |-> m[r][1] * v[1] + m[r][2] * v[2] + m[r][3] * v[3]] :
            m \in {matrix}, v \in {vector} } : TRUE

MatMul(left, right) ==
    CHOOSE product \in
        { [r \in Axes |->
              [c \in Axes |-> a[r][1] * b[1][c] + a[r][2] * b[2][c]
                                + a[r][3] * b[3][c]]] :
            a \in {left}, b \in {right} } : TRUE

\* the axis after k, cyclically
NextAxis(k) == (k % 3) + 1

Det3(matrix) ==
    CHOOSE det \in
        { m[1][1] * (m[2][2] * m[3][3] - m[2][3] * m[3][2])
            - m[1][2] * (m[2][1] * m[3][3] - m[2][3] * m[3][1])
            + m[1][3] * (m[2][1] * m[3][2] - m[2][2] * m[3][1]) :
            m \in {matrix} } : TRUE

\* Det3(matrix) times the inverse of the matrix
Adjugate3(matrix) ==
    CHOOSE adj \in
        { [r \in Axes |->
              [c \in Axes |->
                  m[NextAxis(c)][NextAxis(r)]
                          * m[NextAxis(NextAxis(c))][NextAxis(NextAxis(r))]
                      - m[NextAxis(c)][NextAxis(NextAxis(r))]
                          * m[NextAxis(NextAxis(c))][NextAxis(r)]]] :
            m \in {matrix} } : TRUE

\* right2left = np.linalg.inv(left.affine) @ right.affine, as numerators
\* over the denominator den > 0 (den = 0: left.affine is singular)
right2left(left_affine, right_affine) ==
    CHOOSE r2l \in
        { [lin |-> MatMul(adj, right_affine.lin),
           trans |-> MatVec(adj, [k \in Axes |-> right_affine.trans[k]
                                                   - left_affine.trans[k]]),
           den |-> IF det < 0 THEN -det ELSE det] :
            det \in {Det3(left_affine.lin)},
            adj \in { [r \in Axes |->
                          [c \in Axes |->
                              IF d < 0 THEN -a[r][c] ELSE a[r][c]]] :
                        d \in {Det3(left_affine.lin)},
                        a \in {Adjugate3(left_affine.lin)} } } :
        TRUE

\* np.round(n / d) for d > 0: to the nearest integer, halves to the even one
Round(n, d) ==
    CHOOSE rounded \in
        { IF 2 * (x % d) < d THEN x \div d
          ELSE IF 2 * (x % d) > d THEN (x \div d) + 1
          ELSE IF (x \div d) % 2 = 0 THEN x \div d ELSE (x \div d) + 1 :
            x \in {n} } : TRUE

SetMin(S) == CHOOSE x \in S : \A y \in S : x <= y
SetMax(S) == CHOOSE x \in S : \A y \in S : y <= x

\* bbox * (shape - 1): the eight corners of a volume, in its voxel space
Corners(shape) ==
    { [k \in Axes |-> b[k] * (shape[k] - 1)] : b \in [Axes -> {0, 1}] }

\* the index triples of a grid
Grid(shape) ==
    { <<i, j, k>> : i \in 0..(shape[1] - 1), j \in 0..(shape[2] - 1),
                    k \in 0..(shape[3] - 1) }

\* left_bbox_min, left_bbox_max: the rounded extremes of the left corners
left_bbox_min(left) ==
    CHOOSE min \in
        { [k \in Axes |-> Round(SetMin({c[k] : c \in left_bbox}), 1)] :
            left_bbox \in {Corners(left.shape)} } : TRUE

left_bbox_max(left) ==
    CHOOSE max \in
        { [k \in Axes |-> Round(SetMax({c[k] : c \in left_bbox}), 1)] :
            left_bbox \in {Corners(left.shape)} } : TRUE

\* right_bbox @ right2left[:3, :3].T + right2left[:3, -1], as numerators
MappedCorners(right, r2l) ==
    { [k \in Axes |-> v[k] + r2l.trans[k]] :
        v \in { MatVec(r2l.lin, c) : c \in Corners(right.shape) } }

right_bbox_min(right, r2l) ==
    CHOOSE min \in
        { [k \in Axes |-> Round(SetMin({c[k] : c \in right_bbox}), r2l.den)] :
            right_bbox \in {MappedCorners(right, r2l)} } : TRUE

right_bbox_max(right, r2l) ==
    CHOOSE max \in
        { [k \in Axes |-> Round(SetMax({c[k] : c \in right_bbox}), r2l.den)] :
            right_bbox \in {MappedCorners(right, r2l)} } : TRUE

\* the slices of a volume in the combined grid: from min - bmin up to,
\* and without, max - bmin + 1
Slices(min, max, bmin) ==
    [start |-> [k \in Axes |-> min[k] - bmin[k]],
     stop |-> [k \in Axes |-> max[k] - bmin[k] + 1]]

SlicesShape(box) == [k \in Axes |-> box.stop[k] - box.start[k]]

Covers(box, idx) ==
    \A k \in Axes : box.start[k] <= idx[k] /\ idx[k] < box.stop[k]

\* out[box] += dat is defined when dat broadcasts to the shape of out[box]:
\* every extent of dat equals that of the box or is 1
Broadcasts(shape, box) ==
    \A k \in Axes : shape[k] = SlicesShape(box)[k] \/ shape[k] = 1

\* the element of dat added at idx (an axis of extent 1 is repeated)
Operand(shape, box, idx) ==
    [k \in Axes |-> IF shape[k] = 1 THEN 0 ELSE idx[k] - box.start[k]]

DtypeModulus(dtype) == IF dtype = "u1" THEN 256 ELSE 65536

\* out[box] += dat, out being of type dtype: the sum is cast back to the
\* type of out (casting 'same_kind' lets an unsigned sum wrap)
AddInPlaceRightOnly(out, dtype, box, shape, dat) ==
    CHOOSE sum \in
        { [idx \in DOMAIN o |->
              IF Covers(box, idx)
              THEN d[Operand(shape, box, idx)] % DtypeModulus(dtype)
              ELSE o[idx]] : o \in {out}, d \in {dat} } : TRUE
AddInPlace(out, dtype, box, shape, dat) ==
    CHOOSE sum \in
        { [idx \in DOMAIN o |->
              IF Covers(box, idx)
              THEN (o[idx] + d[Operand(shape, box, idx)])
                       % DtypeModulus(dtype)
              ELSE o[idx]] : o \in {out}, d \in {dat} } : TRUE

\* (np.asarray(dataobj) > 0) * np.uint8(weight)
PositiveEverywhere(dat, weight) == [idx \in DOMAIN dat |-> weight]
Positive(dat, weight) ==
    [idx \in DOMAIN dat |-> IF dat[idx] > 0 THEN weight ELSE 0]

\* comb2left = eye(4); comb2left[:3, -1] = bmin - left_bbox_min;
\* affine = left.affine @ comb2left
CombinedAffineUnshifted(left, bmin) == left.affine
CombinedAffine(left, bmin) ==
    CHOOSE affine \in
        { [lin |-> left.affine.lin,
           trans |-> [k \in Axes |-> shift[k] + left.affine.trans[k]]] :
            shift \in
                { MatVec(left.affine.lin,
                         [k \in Axes |-> bmin[k] - lmin[k]]) :
                    lmin \in {left_bbox_min(left)} } } : TRUE

RECURSIVE ReplaceLeft(_, _)
\* basename.replace(".left", ".{side}") followed by format(side=...), on a
\* name held as a sequence of parts
ReplaceLeft(parts, side) ==
    IF parts = <<>> THEN <<>>
    ELSE <<IF Head(parts) = ".left" THEN "." \o side ELSE Head(parts)>>
             \o ReplaceLeft(Tail(parts), side)

\* the file written for save / save_sides: none, the given one, or the
\* default name next to the left file ("seg" when left has no file name)
CombineSavedAs(left, save, side) ==
    LET basename == IF left.kind = "path" THEN left.fname ELSE <<"seg">>
    IN  CASE save = "no" -> <<>>
          [] save = "given" -> <<"given">>
          [] OTHER ->
                (IF \E i \in DOMAIN basename : basename[i] = ".left"
                 THEN ReplaceLeft(basename, side)
                 ELSE basename \o <<"." \o side>>) \o <<".nii.gz">>

CombineFailure(e, left) ==
    [status |-> e, shape |-> <<>>, dat |-> <<>>, dtype |-> "", affine |-> <<>>,
     msk |-> <<>>, msk_affine |-> <<>>, left_bbox |-> <<>>,
     right_bbox |-> <<>>, bmin |-> <<>>, bmax |-> <<>>,
     left_header |-> left.dtype, saved |-> <<>>, saved_sides |-> <<>>]

\* shape = bmax - bmin + 1
CombinedShapeOpen(bmin, bmax) == [k \in Axes |-> bmax[k] - bmin[k]]
CombinedShape(bmin, bmax) == [k \in Axes |-> bmax[k] - bmin[k] + 1]

\* lines 66-85: the shape of the combined grid and the slices of the two
\* volumes in it, from the rounded extremes of their corners
CombinedGrid(lmin, lmax, rmin, rmax) ==
    CHOOSE boxes \in
        { [bmin |-> bmin, bmax |-> bmax,
           shape |-> CombinedShape(bmin, bmax),
           left_bbox |-> Slices(lmin, lmax, bmin),
           right_bbox |-> Slices(rmin, rmax, bmin)] :
            bmin \in {[k \in Axes |-> SetMin({lmin[k], rmin[k]})]},
            bmax \in {[k \in Axes |-> SetMax({lmax[k], rmax[k]})]} } :
        TRUE

\* lines 46-85, right2left being given
BoundingBoxes(left, right, r2l) ==
    CHOOSE boxes \in
        { CombinedGrid(lmin, lmax, rmin, rmax) :
            lmin \in {left_bbox_min(left)},
            lmax \in {left_bbox_max(left)},
            rmin \in {right_bbox_min(right, r2l)},
            rmax \in {right_bbox_max(right, r2l)} } :
        TRUE

\* lines 95-98 (with weights 0: the label values) and 103-106 (with
\* weights 1 and 2): zeros(shape) with the two volumes added in their slices
Placed(boxes, dtype, left, right, weights) ==
    AddInPlace(AddInPlace([idx \in Grid(boxes.shape) |-> 0], dtype,
                          boxes.left_bbox, left.shape,
                          IF weights THEN Positive(left.dat, 1)
                          ELSE left.dat),
               dtype, boxes.right_bbox, right.shape,
               IF weights THEN Positive(right.dat, 2) ELSE right.dat)

\* lines 87-145, the bounding boxes being given
Combined(left, right, boxes, save, save_sides) ==
    CHOOSE result \in
        { [status |-> "ok", shape |-> boxes.shape,
           dat |-> Placed(boxes, left.dtype, left, right, FALSE),
           dtype |-> left.dtype, affine |-> affine,
           msk |-> Placed(boxes, "u1", left, right, TRUE),
           msk_affine |-> affine,
           left_bbox |-> boxes.left_bbox, right_bbox |-> boxes.right_bbox,
           bmin |-> boxes.bmin, bmax |-> boxes.bmax,
           left_header |-> "u1",
           saved |-> CombineSavedAs(left, save, "combined"),
           saved_sides |-> CombineSavedAs(left, save_sides, "sides")] :
            affine \in {CombinedAffine(left, boxes.bmin)} } :
        TRUE

\* lines 47-145, right2left and the bounding boxes being given: np.linalg.inv
\* raises LinAlgError for a singular left.affine, and the additions raise
\* ValueError when a volume does not broadcast to its slices
CombineWith(left, right, r2l, boxes, save, save_sides) ==
    IF r2l.den = 0 THEN CombineFailure("LinAlgError", left)
    ELSE IF ~Broadcasts(left.shape, boxes.left_bbox)
              \/ ~Broadcasts(right.shape, boxes.right_bbox)
    THEN CombineFailure("ValueError", left)
    ELSE Combined(left, right, boxes, save, save_sides)

\* the bounding boxes of two volumes; they depend on the shapes and the
\* affines only
BoxesOf(left, right, r2l) ==
    IF r2l.den = 0 THEN <<>> ELSE BoundingBoxes(left, right, r2l)

\* combine_hemis(left, right, save, save_sides)
combine_hemis(left, right, save, save_sides) ==
    CHOOSE result \in
        { CHOOSE returned \in
              { CombineWith(left, right, r2l, boxes, save, save_sides) :
                  boxes \in {BoxesOf(left, right, r2l)} } : TRUE :
            r2l \in {right2left(left.affine, right.affine)} } :
        TRUE

(***************************************************************************)
(* Inputs of combine_hemis: volumes of at most MaxVox voxels laid along    *)
(* the first axis, or of two voxels laid along the second; the left one    *)
(* with voxels of size 1 or 2 and its origin at 0 or 1; the right one with *)
(* the left grid's axes shifted by up to MaxVox voxels along the first     *)
(* axis or by one along the second, or with voxels of size 2 and its       *)
(* origin at 0 or 1, or with the first two axes exchanged, or with the     *)
(* first axis sheared into the second.                                     *)
(***************************************************************************)
VolumeShapes == { <<a, 1, 1>> : a \in 1..MaxVox } \cup { <<1, 2, 1>> }

Scale(f) == << <<f, 0, 0>>, <<0, f, 0>>, <<0, 0, f>> >>

SwapFirstTwo == << <<0, 1, 0>>, <<1, 0, 0>>, <<0, 0, 1>> >>

ShearFirstIntoSecond == << <<1, 0, 0>>, <<1, 1, 0>>, <<0, 0, 1>> >>

LeftAffines ==
    { [lin |-> Scale(1), trans |-> <<0, 0, 0>>],
      [lin |-> Scale(2), trans |-> <<0, 0, 0>>],
      [lin |-> Scale(1), trans |-> <<1, 0, 0>>] }

RightAffines ==
    { [lin |-> Scale(1), trans |-> trans] :
        trans \in { <<t, 0, 0>> : t \in (-MaxVox)..MaxVox }
                      \cup { <<0, 1, 0>> } }
    \cup
    { [lin |-> Scale(2), trans |-> trans] :
        trans \in { <<0, 0, 0>>, <<1, 0, 0>> } }
    \cup
    { [lin |-> lin, trans |-> <<0, 0, 0>>] :
        lin \in {SwapFirstTwo, ShearFirstIntoSecond} }

\* label maps of a shape holding 0 and one label, of the smallest unsigned
\* type that holds the label
Volumes(kind, fname, labels, shape, affine) ==
    UNION { { [kind |-> kind, fname |-> fname, shape |-> shape, dat |-> dat,
               dtype |-> IF label < 256 THEN "u1" ELSE "u2",
               affine |-> affine] : dat \in [Grid(shape) -> {0, label}] } :
            label \in labels }

\* two files with the default outputs, or two images with no output
CombineForms ==
    { [kind |-> "path", fname |-> <<"sub", ".left">>, save |-> "default"],
      [kind |-> "image", fname |-> <<>>, save |-> "no"] }

InitCombine == InitNorm

\* one call of combine_hemis; right2left and the bounding boxes are
\* computed as soon as the shapes and the affines are drawn
CallCombineHemis ==
    /\ op = "none"
    /\ Loaded = <<FALSE, FALSE, FALSE>>
    /\ \E left_affine \in LeftAffines, right_affine \in RightAffines,
          left_shape \in VolumeShapes, right_shape \in VolumeShapes :
        \E r2l \in {right2left(left_affine, right_affine)} :
            \E boxes \in {BoxesOf([shape |-> left_shape],
                                  [shape |-> right_shape], r2l)} :
                \E form \in CombineForms :
                    \E left \in Volumes(form.kind, form.fname, {5, 300},
                                        left_shape, left_affine),
                       right \in Volumes(form.kind, <<"sub", ".right">>,
                                         {7, 263}, right_shape,
                                         right_affine) :
                        /\ op' = "combine_hemis"
                        /\ arg' = [left |-> left, right |-> right,
                                   save |-> form.save,
                                   save_sides |-> form.save]
                        /\ ret' = CombineWith(left, right, r2l, boxes,
                                              form.save, form.save)
    /\ UNCHANGED <<allen_ont, nextbrain_lut, supersynth_map>>

NextCombine == CallCombineHemis

SpecCombine == InitCombine /\ [][NextCombine]_vars

(***************************************************************************)
(* The translations and the stitcher together: every function that takes   *)
(* a volume.                                                               *)
(***************************************************************************)
InitVolumes == InitTranslate \/ InitCombine

NextVolumes == NextTranslate \/ CallCombineHemis

SpecVolumes == InitVolumes /\ [][NextVolumes]_vars

(***************************************************************************)
(* Properties of combine_hemis (SpecCombine).                              *)
(***************************************************************************)
Returned == op = "combine_hemis" /\ ret.status = "ok"

\* the physical coordinates of a voxel index, times den
Physical(affine, idx, den) ==
    CHOOSE point \in
        { [k \in Axes |-> v[k] + den * affine.trans[k]] :
            v \in {MatVec(affine.lin, idx)} } : TRUE

\* left.affine sends the point r2l(c) where right.affine sends c, for
\* every corner c of the right volume
MapsRightIntoLeft(left, right, r2l) ==
    \A c \in Corners(right.shape) :
        \A p \in {MatVec(r2l.lin, c)} :
            Physical(left.affine, [k \in Axes |-> p[k] + r2l.trans[k]],
                     r2l.den)
                = [k \in Axes |-> r2l.den * Physical(right.affine, c, 1)[k]]

\* the sixteen corners in left voxel space, as numerators over r2l.den
CornersInLeftSpace(left, right, r2l) ==
    { [k \in Axes |-> r2l.den * c[k]] : c \in Corners(left.shape) }
        \cup MappedCorners(right, r2l)

\* two volumes of one voxel, the right one two voxels further along the
\* first axis
TwoVoxelsOffsetByTwo ==
    /\ arg.left.shape = <<1, 1, 1>>
    /\ arg.right.shape = <<1, 1, 1>>
    /\ arg.left.affine.lin = Identity3
    /\ arg.right.affine.lin = Identity3
    /\ arg.right.affine.trans
           = [arg.left.affine.trans EXCEPT ![1] = @ + 2]

\* C15: the combined volume returned by combine_hemis has, on every axis,
\* the extent bmax - bmin + 1, bmin and bmax being the rounded minimum and
\* maximum over the eight left corners and the eight right corners mapped
\* through inverse(left.affine) @ right.affine; two volumes of one voxel
\* offset by two voxels along the first axis give the shape (3, 1, 1).
C15_ShapeInvariant ==
    Returned =>
        \A r2l \in {right2left(arg.left.affine, arg.right.affine)} :
            /\ r2l.den > 0
            /\ MapsRightIntoLeft(arg.left, arg.right, r2l)
            /\ \A corners \in {CornersInLeftSpace(arg.left, arg.right, r2l)} :
                  \A k \in Axes :
                      ret.shape[k] =
                          Round(SetMax({c[k] : c \in corners}), r2l.den)
                            - Round(SetMin({c[k] : c \in corners}), r2l.den)
                            + 1
            /\ DOMAIN ret.dat = Grid(ret.shape)
            /\ TwoVoxelsOffsetByTwo => ret.shape = <<3, 1, 1>>

\* The two volumes of one voxel offset by two have been combined into a
\* grid of shape (3, 1, 1).
C15_Witness ==
    /\ Returned
    /\ TwoVoxelsOffsetByTwo
    /\ ret.shape = <<3, 1, 1>>
    /\ ret.bmax[1] - ret.bmin[1] = 2

\* the index in the combined grid of the left voxel i
LeftSubBoxIndex(i) == [k \in Axes |-> i[k] + ret.left_bbox.start[k]]

\* the left sub-box starts at left_bbox_min - bmin
LeftSubBoxAtOffset ==
    \A lmin \in {left_bbox_min(arg.left)} :
        \A k \in Axes : ret.left_bbox.start[k] = lmin[k] - ret.bmin[k]

\* the value the right volume adds at the index j of the combined grid
RightPlacement(j) ==
    IF Covers(ret.right_bbox, j)
    THEN arg.right.dat[Operand(arg.right.shape, ret.right_bbox, j)]
    ELSE 0

\* C16 as stated: the combined volume returned by combine_hemis, read at
\* the left sub-box (offset left_bbox_min - bmin), equals the left volume
\* at every voxel.
C16_LeftPlacementEverywhere ==
    Returned =>
        /\ LeftSubBoxAtOffset
        /\ \A i \in Grid(arg.left.shape) :
              ret.dat[LeftSubBoxIndex(i)] = arg.left.dat[i]

\* C16: the combined volume returned by combine_hemis, read at the left
\* sub-box (offset left_bbox_min - bmin), equals the left volume at every
\* voxel that the right sub-box does not cover or where the right volume
\* places the value 0.
C16_LeftPlacement ==
    Returned =>
        /\ LeftSubBoxAtOffset
        /\ \A i \in Grid(arg.left.shape) :
              \A j \in {LeftSubBoxIndex(i)} :
                  /\ j \in DOMAIN ret.dat
                  /\ RightPlacement(j) = 0 => ret.dat[j] = arg.left.dat[i]

\* The left volume starts one voxel inside the combined grid; one of its
\* labelled voxels lies under a zero of the right volume and kept its label.
C16_Witness ==
    /\ Returned
    /\ ret.bmin[1] < 0
    /\ \E i \in Grid(arg.left.shape) :
        /\ arg.left.dat[i] # 0
        /\ Covers(ret.right_bbox, LeftSubBoxIndex(i))
        /\ RightPlacement(LeftSubBoxIndex(i)) = 0
        /\ ret.dat[LeftSubBoxIndex(i)] = arg.left.dat[i]
    /\ \E j \in Grid(ret.shape) : RightPlacement(j) # 0

\* the extent of the right sub-box: right_bbox_max - right_bbox_min + 1
RightSubBoxShape ==
    CHOOSE extent \in
        { [k \in Axes |-> right_bbox_max(arg.right, r2l)[k]
                            - right_bbox_min(arg.right, r2l)[k] + 1] :
            r2l \in {right2left(arg.left.affine, arg.right.affine)} } : TRUE

\* the index in the combined grid of the right voxel j: j + right_bbox_min
\* - bmin
RightSubBoxIndex(j) == [k \in Axes |-> j[k] + ret.right_bbox.start[k]]

\* the value the left volume adds at the index j of the combined grid
LeftPlacement(j) ==
    IF Covers(ret.left_bbox, j)
    THEN arg.left.dat[Operand(arg.left.shape, ret.left_bbox, j)]
    ELSE 0

\* C17: for every pair of volumes the right sub-box computed by
\* combine_hemis has the shape of the right volume, and the combined volume
\* at the right sub-box index j holds the right volume's value at j
\* wherever the left placement is zero.
C17_RightPlacementExact ==
    op = "combine_hemis" =>
        /\ RightSubBoxShape = arg.right.shape
        /\ Returned =>
              \A j \in Grid(arg.right.shape) :
                  LeftPlacement(RightSubBoxIndex(j)) = 0 =>
                      ret.dat[RightSubBoxIndex(j)] = arg.right.dat[j]

\* Two volumes with voxels of size 2, the right one of two voxels shifted
\* by half a voxel: its corners 0.5 and 1.5 round to 0 and 2, the sub-box
\* spans three voxels and the addition of the right volume fails.
C17_Witness ==
    /\ op = "combine_hemis"
    /\ arg.left.affine.lin = Scale(2)
    /\ arg.right.affine.lin = Scale(2)
    /\ arg.right.affine.trans[1] - arg.left.affine.trans[1] = 1
    /\ arg.right.shape = <<2, 1, 1>>
    /\ RightSubBoxShape = <<3, 1, 1>>
    /\ ret.status = "ValueError"

\* the scenario of two volumes of one voxel with the values 5 and 7
FiveAndSeven ==
    /\ TwoVoxelsOffsetByTwo
    /\ arg.left.dat[<<0, 0, 0>>] = 5
    /\ arg.right.dat[<<0, 0, 0>>] = 7

\* C18: at every voxel of the combined grid the side mask returned by
\* combine_hemis is 1 if the left placement covers the voxel with a nonzero
\* value, plus 2 if the right placement covers it with a nonzero value;
\* when no voxel receives nonzero values from both, the mask holds only 0,
\* 1 and 2; the volumes of one voxel with values 5 and 7, offset by two,
\* give the mask [1, 0, 2].
C18_SideMask ==
    Returned =>
        /\ DOMAIN ret.msk = Grid(ret.shape)
        /\ \A idx \in Grid(ret.shape) :
              ret.msk[idx] = (IF LeftPlacement(idx) # 0 THEN 1 ELSE 0)
                               + (IF RightPlacement(idx) # 0 THEN 2 ELSE 0)
        /\ (\A idx \in Grid(ret.shape) :
                LeftPlacement(idx) = 0 \/ RightPlacement(idx) = 0)
              => \A idx \in Grid(ret.shape) : ret.msk[idx] \in {0, 1, 2}
        /\ FiveAndSeven =>
              /\ ret.msk[<<0, 0, 0>>] = 1
              /\ ret.msk[<<1, 0, 0>>] = 0
              /\ ret.msk[<<2, 0, 0>>] = 2

\* The scenario has been combined: values [5, 0, 7], mask [1, 0, 2].
C18_Witness ==
    /\ Returned
    /\ FiveAndSeven
    /\ ret.dat = (<<0, 0, 0>> :> 5) @@ (<<1, 0, 0>> :> 0) @@ (<<2, 0, 0>> :> 7)
    /\ ret.msk = (<<0, 0, 0>> :> 1) @@ (<<1, 0, 0>> :> 0) @@ (<<2, 0, 0>> :> 2)

\* C19: at every voxel the combined volume returned by combine_hemis holds
\* the left value if the voxel is inside the left sub-box, else 0, plus the
\* right value if it is inside the right sub-box, else 0; the side mask is
\* 3 exactly at the voxels where both values are nonzero.
C19_ElementwiseSum ==
    Returned =>
        \A idx \in Grid(ret.shape) :
            /\ ret.dat[idx] = LeftPlacement(idx) + RightPlacement(idx)
            /\ ret.msk[idx] = 3 <=>
                  (LeftPlacement(idx) # 0 /\ RightPlacement(idx) # 0)

\* A voxel has received 5 from the left volume and 263 from the right one,
\* and holds 12 in the combined volume of type uint8; the mask shows 3.
C19_Witness ==
    /\ Returned
    /\ ret.dtype = "u1"
    /\ \E idx \in Grid(ret.shape) :
        /\ LeftPlacement(idx) = 5
        /\ RightPlacement(idx) = 263
        /\ ret.dat[idx] = 12
        /\ ret.msk[idx] = 3

\* C20: the affine of the combined volume returned by combine_hemis is
\* left.affine @ translation(bmin - left_bbox_min); it sends the combined
\* index i + left_bbox_min - bmin of every left voxel i where left.affine
\* sends i; the side mask carries the same affine.
C20_CombinedAffine ==
    Returned =>
        /\ ret.affine.lin = arg.left.affine.lin
        /\ \A lmin \in {left_bbox_min(arg.left)} :
              ret.affine.trans =
                  Physical(arg.left.affine,
                           [k \in Axes |-> ret.bmin[k] - lmin[k]], 1)
        /\ LeftSubBoxAtOffset
        /\ \A i \in Grid(arg.left.shape) :
              Physical(ret.affine, LeftSubBoxIndex(i), 1)
                  = Physical(arg.left.affine, i, 1)
        /\ ret.msk_affine = ret.affine

\* A left volume with voxels of size 2 starts inside the combined grid:
\* the origin of the combined affine lies before that of the left affine.
C20_Witness ==
    /\ Returned
    /\ arg.left.affine.lin = Scale(2)
    /\ ret.bmin[1] < 0
    /\ ret.affine.trans[1] = arg.left.affine.trans[1] + 2 * ret.bmin[1]
    /\ ret.msk_affine = ret.affine

(***************************************************************************)
(* cli.py: the `simplify`, `supersynth` and `combine` commands.  Each      *)
(* command checks the lengths of its lists, then calls its function once   *)
(* per item; its result here is the list of the calls made and of their    *)
(* results, up to the first call that raises.                              *)
(***************************************************************************)
\* for ... in zip(...): the calls in order, up to the first that raises
CliLoop(all) ==
    LET failing == { i \in DOMAIN all : all[i].status # "ok" }
    IN  IF failing = {} THEN all ELSE SubSeq(all, 1, SetMin(failing))

\* the result of a command from the calls it was to make
CliRan(calls, all) ==
    CHOOSE out \in
        { [status |-> results[Len(results)].status,
           calls |-> SubSeq(calls, 1, Len(results)),
           results |-> results] : results \in {CliLoop(all)} } : TRUE

\* raise ValueError(...) before the loop
CliRejected == [status |-> "ValueError", calls |-> <<>>, results |-> <<>>]

\* _simplify(args)
cli_simplify(t, input, output, labels, delete_missing) ==
    LET outs == CliOutputs(Len(input), output)
        calls == [i \in DOMAIN input |->
                     [allen |-> Volume("path", input[i],
                                       <<Len(input[i]), 1, 1>>),
                      labels |-> labels, hide_missing |-> delete_missing,
                      save |-> outs.list[i]]]
    IN  IF outs.status # "ok" THEN CliRejected
        ELSE CHOOSE out \in
                 { CliRan(calls, [i \in DOMAIN calls |->
                                     SimplifyWith(table, calls[i].allen,
                                                  calls[i].save)]) :
                   table \in {get_allen2simple_map(t, labels,
                                                   delete_missing).table} } :
                 TRUE

\* args.side after lines 348-353 of _to_supersynth, or the ValueError
CliSides(n_input, side) ==
    IF Len(side) = 0
    THEN [status |-> "ok", list |-> [i \in 1..n_input |-> SideR]]
    ELSE IF Len(side) = 1
    THEN [status |-> "ok", list |-> [i \in 1..n_input |-> side[1]]]
    ELSE IF Len(side) # n_input
    THEN [status |-> "ValueError", list |-> <<>>]
    ELSE [status |-> "ok", list |-> side]

\* _to_supersynth(args); a side that is no hemisphere name names no file
cli_to_supersynth(lut, smap, input, side, output, claustrum) ==
    LET outs == CliOutputs(Len(input), output)
        sides == CliSides(Len(input), side)
        calls == [i \in DOMAIN input |->
                     [nextbrain |-> Volume("path", input[i],
                                           <<Len(input[i]), 1, 1>>),
                      side |-> StrSide(sides.list[i], <<>>, <<>>),
                      claustrum |-> claustrum, save |-> outs.list[i]]]
    IN  IF outs.status # "ok" \/ sides.status # "ok" THEN CliRejected
        ELSE CHOOSE out \in
                 { CliRan(calls, [i \in DOMAIN calls |->
                                     ToSupersynthWith(
                                         maps[1], maps[2],
                                         calls[i].nextbrain, calls[i].side,
                                         calls[i].save)]) :
                   maps \in {<<get_nextbrain2supersynth_map(
                                   lut, smap, SideL, claustrum),
                               get_nextbrain2supersynth_map(
                                   lut, smap, SideR, claustrum)>>} } : TRUE

\* _combine_hemis(args)
cli_combine_hemis(left, right, output, output_sides) ==
    LET outs == CliOutputs(Len(left), output)
        sides == CliOutputs(Len(left), output_sides)
        calls == [i \in DOMAIN left |->
                     [left |-> left[i], right |-> right[i],
                      save |-> outs.list[i], save_sides |-> sides.list[i]]]
    IN  IF Len(left) # Len(right) THEN CliRejected
        ELSE IF outs.status # "ok" \/ sides.status # "ok" THEN CliRejected
        ELSE CliRan(calls, [i \in DOMAIN calls |->
                               combine_hemis(calls[i].left, calls[i].right,
                                             calls[i].save,
                                             calls[i].save_sides)])

(***************************************************************************)
(* Inputs of the commands: at most MaxFiles input files of one voxel, and  *)
(* up to one more output, mask or side than that.                          *)
(***************************************************************************)
\* the lists of at most n elements of S, the empty one included
ListsUpTo(S, n) == UNION { [1..m -> S] : m \in 0..n }

CliSimplify ==
    /\ op = "none"
    /\ Loaded = <<TRUE, FALSE, FALSE>>
    /\ \E n \in 1..MaxFiles, delete_missing \in BOOLEAN,
          labels \in { {}, {StrLabel(ToDigits(allen_ont.id[1]))} } :
        \E input \in [1..n -> [1..1 -> VoxelValues(allen_ont)]],
           output \in ListsUpTo({"given"}, MaxFiles + 1) :
            /\ op' = "cli_simplify"
            /\ arg' = [input |-> input, output |-> output,
                       labels |-> labels, delete_missing |-> delete_missing]
            /\ ret' = cli_simplify(allen_ont, input, output, labels,
                                   delete_missing)
    /\ UNCHANGED <<allen_ont, nextbrain_lut, supersynth_map>>

CliSupersynth ==
    /\ op = "none"
    /\ Loaded = <<FALSE, TRUE, TRUE>>
    /\ \E n \in 1..MaxFiles, claustrum \in BOOLEAN :
        \E input \in [1..n -> [1..1 -> LutVoxelValues(nextbrain_lut)]],
           side \in ListsUpTo({<<"l", "e", "f", "t">>, <<"x">>},
                              MaxFiles + 1),
           output \in ListsUpTo({"given"}, MaxFiles + 1) :
            /\ op' = "cli_supersynth"
            /\ arg' = [input |-> input, side |-> side, output |-> output,
                       claustrum |-> claustrum]
            /\ ret' = cli_to_supersynth(nextbrain_lut, supersynth_map,
                                        input, side, output, claustrum)
    /\ UNCHANGED <<allen_ont, nextbrain_lut, supersynth_map>>

\* the files of the `combine` command: one-voxel label maps on the same
\* axes, the right one at the left one's place or MaxVox voxels further
CliLeftFiles ==
    Volumes("path", <<"sub", ".left">>, {5}, <<1, 1, 1>>,
            [lin |-> Scale(1), trans |-> <<0, 0, 0>>])
CliRightFiles ==
    { [kind |-> "path", fname |-> <<"sub", ".right">>, shape |-> <<1, 1, 1>>,
       dat |-> [idx \in Grid(<<1, 1, 1>>) |-> 7], dtype |-> "u1",
       affine |-> [lin |-> Scale(1), trans |-> <<t, 0, 0>>]] :
      t \in {0, MaxVox} }

CliCombine ==
    /\ op = "none"
    /\ Loaded = <<FALSE, FALSE, FALSE>>
    /\ \E n \in 1..MaxFiles, m \in 1..MaxFiles :
        \E left \in [1..n -> CliLeftFiles],
           right \in [1..m -> CliRightFiles],
           output \in ListsUpTo({"given"}, MaxFiles + 1),
           output_sides \in ListsUpTo({"given"}, MaxFiles + 1) :
            /\ op' = "cli_combine"
            /\ arg' = [left |-> left, right |-> right, output |-> output,
                       output_sides |-> output_sides]
            /\ ret' = cli_combine_hemis(left, right, output, output_sides)
    /\ UNCHANGED <<allen_ont, nextbrain_lut, supersynth_map>>

InitCli == InitSimplify \/ InitAllen \/ InitSuper \/ InitCombine

NextCli == CliAllen \/ CliSimplify \/ CliSupersynth \/ CliCombine

SpecCli == InitCli /\ [][NextCli]_vars

(***************************************************************************)
(* Properties of the functions that take a volume (SpecVolumes).           *)
(***************************************************************************)
\* the image the caller passed to a translation, as it was before the call
InputImage == IF op = "simplify" THEN arg.allen ELSE arg.nextbrain

\* a translation of an image held by the caller has returned
TranslatedImage ==
    /\ op \in {"simplify", "to_allen", "to_supersynth"}
    /\ ret.status = "ok"
    /\ InputImage.kind = "image"

\* C21: after simplify, to_allen, to_supersynth or combine_hemis returns,
\* the images passed by the caller are as they were before the call: the
\* same voxel data, the same affine, the same header, data type included.
C21_InputsUnchanged ==
    /\ TranslatedImage => ret.input = InputImage
    /\ (Returned /\ arg.left.kind = "image") =>
            ret.left_header = arg.left.dtype

\* to_allen has returned for an image of unsigned 16-bit labels, whose
\* header now declares 32-bit integers; its data and affine are untouched.
C21_Witness ==
    /\ op = "to_allen"
    /\ TranslatedImage
    /\ arg.nextbrain.dtype = "u2"
    /\ ~arg.compat16bits
    /\ ret.input.dtype = "i4"
    /\ ret.input.dat = arg.nextbrain.dat
    /\ ret.input.affine = arg.nextbrain.affine

\* a translation of an image, given as an object or as a file name, has
\* returned
Translated ==
    /\ op \in {"simplify", "to_allen", "to_supersynth"}
    /\ ret.status = "ok"
    /\ IsSpatialImage(InputImage)

\* C23: the image that simplify, to_allen or to_supersynth returns for an
\* image has the shape and the affine of that image, whether the result is
\* saved to disk or not.
C23_GeometryPreserved ==
    Translated =>
        /\ ret.shape = InputImage.shape
        /\ ret.affine = InputImage.affine

\* to_supersynth has returned, without saving, an image of the shape of
\* its input, two voxels in a row, that has no affine.
C23_Witness ==
    /\ op = "to_supersynth"
    /\ Translated
    /\ arg.save = "no"
    /\ arg.nextbrain.shape = <<1, 2>>
    /\ ret.shape = <<1, 2>>
    /\ arg.nextbrain.affine = ImageAffine(2, 1)
    /\ ret.affine = NoAffine

(***************************************************************************)
(* Properties of the commands (SpecCli).                                   *)
(***************************************************************************)
\* a list of outputs, masks or sides of more than one element that has not
\* the length of the list of inputs
Mismatched(list, input) == Len(list) > 1 /\ Len(list) # Len(input)

\* the lists of the command run do not pair
CountMismatch ==
    CASE op \in {"cli_allen", "cli_simplify"} ->
            Mismatched(arg.output, arg.input)
      [] op = "cli_supersynth" ->
            Mismatched(arg.output, arg.input)
                \/ Mismatched(arg.side, arg.input)
      [] op = "cli_combine" ->
            \/ Len(arg.right) # Len(arg.left)
            \/ Mismatched(arg.output, arg.left)
            \/ Mismatched(arg.output_sides, arg.left)
      [] OTHER -> FALSE

\* C22: a command (allen, simplify, supersynth, combine) whose number of
\* right files differs from its number of left files, or whose outputs,
\* mask outputs or sides are more than one and not as many as its inputs,
\* raises ValueError before its first item: it has called its function on
\* no item and no result, so no output file, exists.
C22_CountMismatch ==
    CountMismatch =>
        /\ ret.status = "ValueError"
        /\ ret.calls = <<>>
        /\ ret.results = <<>>

\* The `combine` command was given two left and two right files, two
\* outputs and three mask outputs: it made no call.
C22_Witness ==
    /\ op = "cli_combine"
    /\ Len(arg.left) = 2 /\ Len(arg.right) = 2
    /\ Len(arg.output) = 2 /\ Len(arg.output_sides) = 3
    /\ CountMismatch
    /\ ret.status = "ValueError"
    /\ ret.calls = <<>>

(***************************************************************************)
(* Properties of get_nextbrain2allen_map on the cortical labels            *)
(* (SpecCortex).                                                           *)
(***************************************************************************)
\* get_nextbrain2allen_map has returned a table
BuiltAllenMap == op = "get_nextbrain2allen_map" /\ ret.status = "ok"

\* the cortex ontology asked for
BuiltOntology == EnsureCortexOnto(arg.cortex_ontology)

\* the rows of the lookup table whose name starts with "ctx-"
CorticalRows ==
    { r \in DOMAIN nextbrain_lut : IsCortical(nextbrain_lut[r].NAME) }

\* C24: with the Desikan-Killiany cortex ontology the table maps the id of
\* every label whose name starts with "ctx-" to itself, whatever the names
\* of the nodes of the Allen ontology.
C24_DkPreservesCortex ==
    (BuiltAllenMap /\ BuiltOntology = "desikan-killiany") =>
        \A r \in CorticalRows :
            At(ret.table, nextbrain_lut[r].ID) = nextbrain_lut[r].ID

\* With the Desikan-Killiany ontology, a table holding ctx-rh-cuneus (2005)
\* and an Allen ontology with a node named "cuneus" (12150): the table maps
\* 2005 to 12150.
C24_Witness ==
    /\ BuiltAllenMap
    /\ BuiltOntology = "desikan-killiany"
    /\ \E r \in CorticalRows :
        /\ nextbrain_lut[r].ID = 2005
        /\ nextbrain_lut[r].NAME = PrefixCtx \o PrefixRh \o Cuneus
    /\ \E k \in Nodes(allen_ont) :
        allen_ont.name[k] = Cuneus /\ allen_ont.id[k] = 12150
    /\ At(ret.table, 2005) = 12150

\* the rows ctx-rh-X of the lookup table
RightCorticalRows ==
    { r \in DOMAIN nextbrain_lut :
        startswith(nextbrain_lut[r].NAME, PrefixCtx \o PrefixRh) }

\* the hand-written target of row r in the ontology asked for
HandTarget(r) == CortexMap(BuiltOntology)[DropFirst(nextbrain_lut[r].NAME, 7)]

\* C25: with the gyral or the developmental cortex ontology, every label
\* ctx-rh-X whose hand-written target is the name of a node of the Allen
\* ontology is mapped to the id of that node, and to no node that only the
\* normalized name of the label itself matches.
C25_HandAuthoredResolve ==
    (BuiltAllenMap /\ BuiltOntology \in {"gyral", "developmental"}) =>
        \A r \in RightCorticalRows : \A k \in Nodes(allen_ont) :
            /\ allen_ont.name[k] = HandTarget(r) =>
                At(ret.table, nextbrain_lut[r].ID) = allen_ont.id[k]
            /\ ( /\ normalize_name(allen_ont.name[k])
                        = normalize_name(nextbrain_lut[r].NAME)
                 /\ normalize_name(allen_ont.name[k]) # HandTarget(r) ) =>
                At(ret.table, nextbrain_lut[r].ID) # allen_ont.id[k]

\* With the gyral ontology, a table holding ctx-rh-transversetemporal
\* (2034) and an Allen ontology with the node "transverse temporal gyrus
\* (Heschl's gyrus)" (12144): the table leaves 2034 as it is.
C25_Witness ==
    /\ BuiltAllenMap
    /\ BuiltOntology = "gyral"
    /\ \E r \in RightCorticalRows :
        /\ nextbrain_lut[r].ID = 2034
        /\ HandTarget(r) = TransverseTemporalGyrus
    /\ \E k \in Nodes(allen_ont) :
        /\ allen_ont.name[k] = TransverseTemporalGyrus
        /\ allen_ont.id[k] = 12144
    /\ At(ret.table, 2034) = 2034

\* k and its ancestors
AncestorsOrSelf(t, k) == {k} \cup { a \in Nodes(t) : IsAncestor(t, a, k) }

\* the node on the way from the deepest common ancestor of k and j down to
\* k, for k and j on different branches
BranchTo(t, k, j) ==
    CHOOSE a \in AncestorsOrSelf(t, k) \ AncestorsOrSelf(t, j) :
        t.parent[a] \in AncestorsOrSelf(t, j)

\* k comes before j in the pre-order of t: k is an ancestor of j, or the
\* branch of k is listed before the branch of j under their common ancestor
PreOrderBefore(t, k, j) ==
    /\ k # j
    /\ \/ IsAncestor(t, k, j)
       \/ /\ ~IsAncestor(t, j, k)
          /\ BranchTo(t, k, j) < BranchTo(t, j, k)

\* the nodes whose normalized name is the normalized, or hand-written, name
\* of row r
MatchingNodes(r) ==
    { k \in Nodes(allen_ont) :
        normalize_name(allen_ont.name[k]) =
        NextbrainNorm(nextbrain_lut[r].NAME, CortexMap(BuiltOntology)) }

\* the last of the nodes matching row r, in pre-order
LastMatch(r) ==
    CHOOSE k \in MatchingNodes(r) :
        \A j \in MatchingNodes(r) \ {k} : PreOrderBefore(allen_ont, j, k)

\* the traversal has visited every node once, in pre-order
VisitedInPreOrder ==
    /\ Len(ret.visited) = Cardinality(Nodes(allen_ont))
    /\ Range(ret.visited) = Nodes(allen_ont)
    /\ \A i, j \in DOMAIN ret.visited :
        i < j => PreOrderBefore(allen_ont, ret.visited[i], ret.visited[j])

\* the rows whose name does not start with "ctx-lh-"
NormRows ==
    { r \in DOMAIN nextbrain_lut :
        ~startswith(nextbrain_lut[r].NAME, PrefixCtxLh) }

\* C27 as stated: the traversal visits every node in pre-order, matched or
\* not, and every label of the lookup table whose normalized (or
\* hand-written) name is the normalized name of some node is mapped to the
\* id of the last such node in pre-order.
C27_MatchAllEveryLabel ==
    BuiltAllenMap =>
        /\ VisitedInPreOrder
        /\ \A r \in DOMAIN nextbrain_lut :
            MatchingNodes(r) # {} =>
                At(ret.table, nextbrain_lut[r].ID) = allen_ont.id[LastMatch(r)]

\* C27: the traversal of get_nextbrain2allen_map visits every node of the
\* Allen ontology in pre-order, whether or not an ancestor matched, and
\* every label of the lookup table whose name does not start with
\* "ctx-lh-" and whose normalized (or hand-written) name is the normalized
\* name of some node is mapped to the id of the last such node in
\* pre-order.
C27_MatchAll ==
    BuiltAllenMap =>
        /\ VisitedInPreOrder
        /\ \A r \in NormRows :
            MatchingNodes(r) # {} =>
                At(ret.table, nextbrain_lut[r].ID) = allen_ont.id[LastMatch(r)]

\* Under the Desikan-Killiany ontology, in a tree visited in the order 1,
\* 2, 4, 3: node 2 matches ctx-rh-cuneus and its child 4 matches
\* ctx-rh-insula, which node 3 matches too; 2005 has the id of node 2 and
\* 2035 that of node 3, the last visited.
C27_Witness ==
    /\ BuiltAllenMap
    /\ BuiltOntology = "desikan-killiany"
    /\ ret.visited = <<1, 2, 4, 3>>
    /\ allen_ont.parent[4] = 2
    /\ \E r, q \in NormRows :
        /\ nextbrain_lut[r].ID = 2005
        /\ nextbrain_lut[q].ID = 2035
        /\ 2 \in MatchingNodes(r)
        /\ MatchingNodes(q) = {3, 4}
        /\ At(ret.table, 2005) = allen_ont.id[2]
        /\ At(ret.table, 2035) = allen_ont.id[3]

(***************************************************************************)
(* Properties of the lists of the correspondence (SpecSuper).              *)
(***************************************************************************)
\* the destination id of entry e of the correspondence, for the call made
DestinationId(e) ==
    SuperSynthLut[SuperSynthLabel(supersynth_map[e].key,
                                  EnsureSide(arg.side), arg.claustrum)]

\* the labels that entry e lists and no later entry lists again
LastListed(e) ==
    { x \in Range(supersynth_map[e].labels) :
        \A f \in DOMAIN supersynth_map :
            f > e => x \notin Range(supersynth_map[f].labels) }

\* the labels of the lookup table
LutIds == { nextbrain_lut[r].ID : r \in DOMAIN nextbrain_lut }

TranslationCalled == op \in {"simplify", "to_allen", "to_supersynth"}

\* len(table) for the call: the table of simplify covers the Allen ids,
\* those of to_allen and to_supersynth the labels of the lookup table
TableLenOfCall ==
    IF op = "simplify" THEN AllenTableLen
    ELSE MaxNextbrainLabel(nextbrain_lut) + 1

\* the values of the input volume outside [0, len(table))
OutOfDomain ==
    { InputDat[i] : i \in DOMAIN InputDat } \ (0..(TableLenOfCall - 1))

\* C28: a call of to_allen, simplify or to_supersynth on a volume holding a
\* value outside [0, len(table)), above the last index or negative, does
\* not return a volume: it fails.
C28_OutOfDomainRejected ==
    (TranslationCalled /\ OutOfDomain # {}) => ret.status # "ok"

\* to_allen has returned for a volume of the single value -1: the output
\* holds the last entry of the table.
C28_Witness ==
    /\ op = "to_allen"
    /\ ret.status = "ok"
    /\ arg.nextbrain.dat = <<-1>>
    /\ OutOfDomain = {-1}
    /\ ret.dat = <<At(ret.table, ret.table.len - 1)>>

\* to_supersynth has been called on an image whose values are indices of
\* the two tables, both of which can be built
SupersynthCallable ==
    /\ op = "to_supersynth"
    /\ IsSpatialImage(arg.nextbrain)
    /\ OutOfDomain = {}
    /\ \A s \in {SideL, SideR} :
        get_nextbrain2supersynth_map(nextbrain_lut, supersynth_map, s,
                                     arg.claustrum).status = "ok"

\* the side is a flag: 'L', 'R', 'left', 'right' or a member of Side
SideIsFlag ==
    /\ arg.side.dat = <<>>
    /\ \/ arg.side.kind = "Side"
       \/ /\ arg.side.kind = "str"
          /\ arg.side.value \in { SideL, SideR, <<"l", "e", "f", "t">>,
                                  <<"r", "i", "g", "h", "t">> }

\* the side is a label map of the shape of the volume, in any of its forms
SideIsMask ==
    /\ arg.side.kind \in {"str", "Path", "image", "array"}
    /\ arg.side.shape = arg.nextbrain.shape

\* C29: to_supersynth returns a translated volume for every form of the
\* side: with the table of the hemisphere for a flag ('L', 'R', 'left',
\* 'right' or a member of Side), with both tables for a label map given as
\* a file name (str or Path), as an image or as an array.
C29_SideFormsAccepted ==
    SupersynthCallable =>
        /\ SideIsFlag => (ret.status = "ok" /\ ret.mode = "side")
        /\ SideIsMask => (ret.status = "ok" /\ ret.mode = "mask")

\* to_supersynth was called with a label map given as an array, of the
\* shape of the volume: it raised AttributeError.
C29_Witness ==
    /\ SupersynthCallable
    /\ SideIsMask
    /\ arg.side.kind = "array"
    /\ ret.status = "AttributeError"

\* the remap table of the call can be built
TableBuilds ==
    CASE op = "simplify" -> TRUE
      [] op = "to_allen" ->
            get_nextbrain2allen_map(allen_ont, nextbrain_lut,
                                    arg.ontology).status = "ok"
      [] OTHER ->
            \A s \in {SideL, SideR} :
                get_nextbrain2supersynth_map(nextbrain_lut, supersynth_map,
                                             s, arg.claustrum).status = "ok"

\* a translation has been called on a plain array whose values are indices
\* of the table, with nothing to save (and, for to_supersynth, with the
\* flag of a hemisphere)
ArrayCall ==
    /\ TranslationCalled
    /\ InputImage.kind = "array"
    /\ arg.save = "no"
    /\ OutOfDomain = {}
    /\ TableBuilds
    /\ op = "to_supersynth" => SideIsFlag

\* C30: to_allen, simplify and to_supersynth, given a plain array and
\* nothing to save, return without error the array table[input].
C30_ArrayInput ==
    ArrayCall =>
        /\ ret.status = "ok"
        /\ ret.dat = Gather(TableOfCall, InputDat)

\* simplify was called on an array of one voxel with nothing to save: it
\* raised TypeError.
C30_Witness ==
    /\ op = "simplify"
    /\ ArrayCall
    /\ Len(arg.allen.dat) = 1
    /\ ret.status = "TypeError"

=============================================================================
